---- MODULE Spec2Model ----
(***************************************************************************)
(* MemoDB server: the path tree (tree.c, ensure_node_path / db_set /       *)
(* db_get / db_del in main.c) and the epoll reactor of main.c.             *)
(*                                                                         *)
(* C strings are sequences of one-character strings.  Node pointers are    *)
(* indices into the node heap; NULL is 0.  The root Node is the static     *)
(* object at index 1.                                                      *)
(***************************************************************************)
EXTENDS Integers, Sequences, FiniteSets, TLC

VARIABLES
    node,       \* heap of struct s_node: [path, north, west, east]
    last,       \* the db_* call made by the latest step and its result
    everSet,    \* segment sequences that were the file argument of a db_set
    deleted,    \* <<segments, key>> deleted and not SET again since
    clients,    \* g_server->clients: slot -> client pointer (a connection id) or NULL
    client_count, \* g_server->client_count
    client,     \* the struct client of each connection, NoClient when not allocated
    sock,       \* kernel side of each connection: socket queues, epoll interest, history
    todo,       \* what each peer has still to send, as a sequence of TCP segments
    log,        \* per connection: the messages handed to send_to_client, with their lines
    running,    \* g_server->running
    events,     \* main_loop: the events of the latest epoll_wait not yet served
    pc          \* main(): "main_loop", or "exit" once cleanup_server has returned

histVars == <<last, everSet, deleted>>
loopVars == <<running, events, pc>>
netVars == <<clients, client_count, client, sock, todo, log, loopVars>>
vars == <<node, last, everSet, deleted, clients, client_count, client, sock, todo, log,
          running, events, pc>>

NULL == 0

(***************************************************************************)
(* Sizes.  The buffers of main.h and tree.h are scaled down, keeping their *)
(* order: every field buffer is smaller than the client buffer.            *)
(***************************************************************************)
MAX_KEY_LEN == 3        \* main.h: 128, sizeof(leaf->key)
MAX_VALUE_LEN == 4      \* main.h: 1024
MAX_FILENAME_LEN == 6   \* main.h: 256, sizeof(node->path)
CMD_SIZE == 5           \* main.h: char command[16]
BUFFER_SIZE == 16       \* main.h: 4096
MAX_CLIENTS == 2        \* main.h: 10000

\* Bounds of the model.
MaxNodes == 4           \* db_set is not called when it would make more Nodes
MaxLeaves == 2          \* db_set is not called when it would make more Leaves

root == 1               \* tree.c: Tree root

(***************************************************************************)
(* C string helpers.                                                       *)
(***************************************************************************)
Min(a, b) == IF a < b THEN a ELSE b

\* strncpy(dst, src, n - 1); dst[n - 1] = '\0'  and  snprintf(dst, n, "%s", src)
Trunc(s, n) == SubSeq(s, 1, Min(Len(s), n - 1))

\* Index of the first element of s at or after i that is (not) in set D; Len(s)+1 if none.
RECURSIVE SkipIn(_, _, _)
SkipIn(s, i, D) == IF i > Len(s) \/ s[i] \notin D THEN i ELSE SkipIn(s, i + 1, D)

RECURSIVE SkipOut(_, _, _)
SkipOut(s, i, D) == IF i > Len(s) \/ s[i] \in D THEN i ELSE SkipOut(s, i + 1, D)

\* One call of strtok_r on the text that starts at index i of s: the token
\* (<<>> stands for a NULL return) and the index saveptr is left at.
strtok_r(s, i, D) ==
    LET b == SkipIn(s, i, D)
        e == SkipOut(s, b, D)
    IN  IF b > Len(s)
        THEN [tok |-> <<>>, save |-> Len(s) + 1]
        ELSE [tok |-> SubSeq(s, b, e - 1), save |-> Min(e + 1, Len(s) + 1)]

\* All tokens strtok_r yields when called until it returns NULL.
RECURSIVE Tokens(_, _, _)
Tokens(s, i, D) ==
    LET t == strtok_r(s, i, D)
    IN  IF t.tok = <<>> THEN <<>> ELSE <<t.tok>> \o Tokens(s, t.save, D)

SP == " "
LF == "LF"              \* '\n'
CR == "CR"              \* '\r'
NUL == "NUL"            \* '\0' as a byte of the input

LowerCase == <<"a", "b", "c", "d", "e", "f", "g", "h", "i", "j", "k", "l", "m",
               "n", "o", "p", "q", "r", "s", "t", "u", "v", "w", "x", "y", "z">>
UpperCase == <<"A", "B", "C", "D", "E", "F", "G", "H", "I", "J", "K", "L", "M",
               "N", "O", "P", "Q", "R", "S", "T", "U", "V", "W", "X", "Y", "Z">>

toupper(c) ==
    IF \E i \in 1..26 : LowerCase[i] = c
    THEN UpperCase[CHOOSE i \in 1..26 : LowerCase[i] = c]
    ELSE c

\* The path segments both walks consume: one leading '/' skipped, then strtok_r on "/".
\* A split that takes a leading '/' for an empty first segment.
PathSegments_keep(path) ==
    IF Len(path) > 0 /\ path[1] = "/"
    THEN <<<<>>>> \o Tokens(path, 2, {"/"})
    ELSE Tokens(path, 1, {"/"})

PathSegments(path) ==
    LET start == IF Len(path) > 0 /\ path[1] = "/" THEN 2 ELSE 1
    IN  Tokens(path, start, {"/"})

(***************************************************************************)
(* tree.c                                                                  *)
(*                                                                         *)
(* create_node is the only writer of the west links and it inserts the new *)
(* Node right behind its parent, so all Nodes lie on one west chain that   *)
(* starts at the root.  The node heap lists them in that order: address i  *)
(* has west = i + 1 (NULL for the last), and an insertion renumbers the    *)
(* addresses behind it.  A Node's east chain is the sequence of its Leaves *)
(* in east order.                                                          *)
(***************************************************************************)
\* The search loop shared by find_node_linear and ensure_node_path: the first
\* Node on the west chain starting at n whose path equals tok, or NULL.
RECURSIVE WestSearch(_, _, _)
WestSearch(nd, n, tok) ==
    IF n = NULL THEN NULL
    ELSE IF nd[n].path = tok THEN n
    ELSE WestSearch(nd, nd[n].west, tok)

create_node(nd, parent, path) ==
    LET new == parent + 1
        Moved(p) == IF p > parent THEN p + 1 ELSE p
        Ren(r) == [r EXCEPT !.north = Moved(@), !.west = Moved(@)]
        rec == [path |-> Trunc(path, MAX_FILENAME_LEN), north |-> parent,
                west |-> Moved(nd[parent].west), east |-> <<>>]
    IN  [nd |-> [i \in 1..(Len(nd) + 1) |->
                    IF i < parent THEN Ren(nd[i])
                    ELSE IF i = parent THEN [Ren(nd[i]) EXCEPT !.west = new]
                    ELSE IF i = new THEN rec
                    ELSE Ren(nd[i - 1])],
         ret |-> new]

RECURSIVE FindWalk(_, _, _)
FindWalk(nd, cur, toks) ==
    IF toks = <<>> THEN cur
    ELSE LET child == WestSearch(nd, nd[cur].west, Head(toks))
         IN  IF child = NULL THEN NULL ELSE FindWalk(nd, child, Tail(toks))

find_node_linear(nd, path) == FindWalk(nd, root, PathSegments(path))

\* The position in the east chain ch of the first Leaf whose key equals key, or NULL.
EastSearch(ch, key) ==
    IF \E i \in 1..Len(ch) : ch[i].key = key
    THEN CHOOSE i \in 1..Len(ch) : ch[i].key = key /\ \A j \in 1..(i - 1) : ch[j].key # key
    ELSE NULL

\* The Leaf found is named by its Node and its position in the Node's chain.
find_leaf_linear(nd, path, key) ==
    LET n == find_node_linear(nd, path)
    IN  IF n = NULL THEN [n |-> NULL, l |-> NULL]
        ELSE [n |-> n, l |-> EastSearch(nd[n].east, key)]

\* A Leaf whose value pointer is NULL carries the field null; a Leaf that
\* was passed to free() and is still linked carries the field freed.
NullValue(leaf) == "null" \in DOMAIN leaf
Dangling(leaf) == "freed" \in DOMAIN leaf

\* Returns the value pointer of the Leaf found, NULL without one.
lookup_linear(nd, path, key) ==
    LET p == find_leaf_linear(nd, path, key)
    IN  IF p.l # NULL /\ ~NullValue(nd[p.n].east[p.l])
        THEN [found |-> TRUE, value |-> nd[p.n].east[p.l].value]
        ELSE [found |-> FALSE, value |-> <<>>]

find_last_linear(nd, parent) ==
    IF nd[parent].east = <<>> THEN NULL ELSE Len(nd[parent].east)

\* create_leaf copying one byte too few of the value.
create_leaf_short(nd, west, key, value) ==
    LET new_leaf == [key |-> Trunc(key, MAX_KEY_LEN), value |-> SubSeq(value, 1, Len(value) - 1)]
    IN  [nd |-> [nd EXCEPT ![west].east = Append(@, new_leaf)], ret |-> Len(nd[west].east) + 1]

\* create_leaf linking the new Leaf in front of the chain.
create_leaf_first(nd, west, key, value) ==
    LET new_leaf == [key |-> Trunc(key, MAX_KEY_LEN), value |-> value]
    IN  [nd |-> [nd EXCEPT ![west].east = <<new_leaf>> \o @], ret |-> 1]

create_leaf(nd, west, key, value) ==
    LET leaf_list_last == find_last_linear(nd, west)
        new_leaf == [key |-> Trunc(key, MAX_KEY_LEN), value |-> value]
    IN  IF leaf_list_last = NULL
        THEN [nd |-> [nd EXCEPT ![west].east = <<new_leaf>>], ret |-> 1]
        ELSE [nd |-> [nd EXCEPT ![west].east =
                        SubSeq(@, 1, leaf_list_last) \o <<new_leaf>>],
              ret |-> leaf_list_last + 1]

\* create_leaf when malloc returns NULL: fail = "leaf" for the Leaf
\* structure, "value" for the value.  In the second case the Leaf is
\* already linked behind the last one when it is freed; junk is what its
\* key field reads as afterwards.
create_leaf_oom(nd, west, key, value, fail, junk) ==
    LET leaf_list_last == find_last_linear(nd, west)
        new_leaf == [key |-> junk, value |-> <<>>, freed |-> TRUE]
    IN  IF fail = "leaf" THEN [nd |-> nd, ret |-> NULL]
        ELSE IF leaf_list_last = NULL
        THEN [nd |-> [nd EXCEPT ![west].east = <<new_leaf>>], ret |-> NULL]
        ELSE [nd |-> [nd EXCEPT ![west].east =
                        SubSeq(@, 1, leaf_list_last) \o <<new_leaf>>],
              ret |-> NULL]

(***************************************************************************)
(* main.c: the database calls                                              *)
(***************************************************************************)
RECURSIVE EnsureWalk(_, _, _)
EnsureWalk(nd, cur, toks) ==
    IF toks = <<>> THEN [nd |-> nd, ret |-> cur]
    ELSE LET child == WestSearch(nd, nd[cur].west, Head(toks))
         IN  IF child # NULL
             THEN EnsureWalk(nd, child, Tail(toks))
             ELSE LET c == create_node(nd, cur, Head(toks))
                  IN  EnsureWalk(c.nd, c.ret, Tail(toks))

\* An ensure_node_path that takes the path for one segment.
ensure_node_path_whole(nd, path) == EnsureWalk(nd, root, IF path = <<>> THEN <<>> ELSE <<path>>)

ensure_node_path(nd, path) == EnsureWalk(nd, root, PathSegments(path))

\* ensure_node_path when create_node returns NULL after left calls of it
\* that succeeded.
RECURSIVE EnsureWalkOom(_, _, _, _)
EnsureWalkOom(nd, cur, toks, left) ==
    IF toks = <<>> THEN [nd |-> nd, ret |-> cur]
    ELSE LET child == WestSearch(nd, nd[cur].west, Head(toks))
         IN  IF child # NULL
             THEN EnsureWalkOom(nd, child, Tail(toks), left)
             ELSE IF left = 0 THEN [nd |-> nd, ret |-> NULL]
             ELSE LET c == create_node(nd, cur, Head(toks))
                  IN  EnsureWalkOom(c.nd, c.ret, Tail(toks), left - 1)

\* db_set creating a Leaf without looking for an existing one.
db_set_dup(nd, filename, key, value) ==
    LET e == ensure_node_path(nd, filename)
    IN  [nd |-> create_leaf(e.nd, e.ret, key, value).nd, ret |-> 0]

\* A db_set that drops the Leaf it finds and appends a new one.
db_set_move(nd, filename, key, value) ==
    LET e == ensure_node_path(nd, filename)
        existing_leaf == find_leaf_linear(e.nd, filename, key)
        cut == [e.nd EXCEPT ![existing_leaf.n].east =
                   SubSeq(@, 1, existing_leaf.l - 1) \o SubSeq(@, existing_leaf.l + 1, Len(@))]
    IN  IF existing_leaf.l # NULL
        THEN [nd |-> create_leaf(cut, existing_leaf.n, key, value).nd, ret |-> 0]
        ELSE [nd |-> create_leaf(e.nd, e.ret, key, value).nd, ret |-> 0]

db_set(nd, filename, key, value) ==
    LET e == ensure_node_path(nd, filename)
        existing_leaf == find_leaf_linear(e.nd, filename, key)
    IN  IF existing_leaf.l # NULL
        THEN [nd |-> [e.nd EXCEPT ![existing_leaf.n].east[existing_leaf.l].value = value],
              ret |-> 0]
        ELSE [nd |-> create_leaf(e.nd, e.ret, key, value).nd, ret |-> 0]

\* db_set with one allocation that fails.  fail: "node0" / "node1" the
\* first / second create_node, "leaf" / "value" the two mallocs of
\* create_leaf, "update" the malloc of the new value of an existing Leaf;
\* a call that never gets to the allocation named succeeds.
db_set_oom(nd, filename, key, value, fail, junk) ==
    LET e == IF fail = "node0" THEN EnsureWalkOom(nd, root, PathSegments(filename), 0)
             ELSE IF fail = "node1" THEN EnsureWalkOom(nd, root, PathSegments(filename), 1)
             ELSE ensure_node_path(nd, filename)
        existing_leaf == find_leaf_linear(e.nd, filename, key)
    IN  IF e.ret = NULL THEN [nd |-> e.nd, ret |-> -1]
        ELSE IF existing_leaf.l # NULL
        THEN IF fail = "update"
             THEN [nd |-> [e.nd EXCEPT ![existing_leaf.n].east[existing_leaf.l] =
                              IF Dangling(@) THEN [@ EXCEPT !.value = <<>>]
                              ELSE [key |-> @.key, value |-> <<>>, null |-> TRUE]],
                   ret |-> -1]
             ELSE [nd |-> [e.nd EXCEPT ![existing_leaf.n].east[existing_leaf.l] =
                              IF Dangling(@) THEN [@ EXCEPT !.value = value]
                              ELSE [key |-> @.key, value |-> value]],
                   ret |-> 0]
        ELSE IF fail \in {"leaf", "value"}
        THEN [nd |-> create_leaf_oom(e.nd, e.ret, key, value, fail, junk).nd, ret |-> -1]
        ELSE [nd |-> create_leaf(e.nd, e.ret, key, value).nd, ret |-> 0]

db_get(nd, filename, key) == lookup_linear(nd, filename, key)

\* The scan of db_del over the east chain ch: cur is the position examined
\* (prev_leaf is cur - 1); the match is spliced out and released.
RECURSIVE DelScan(_, _, _)
DelScan(ch, cur, key) ==
    IF cur > Len(ch) THEN [east |-> ch, ret |-> -1]
    ELSE IF ch[cur].key = key
    THEN [east |-> SubSeq(ch, 1, cur - 1) \o SubSeq(ch, cur + 1, Len(ch)), ret |-> 0]
    ELSE DelScan(ch, cur + 1, key)

\* A db_del that unlinks the Node's first Leaf when the key is not there.
db_del_first(nd, filename, key) ==
    LET target_node == find_node_linear(nd, filename)
    IN  IF target_node = NULL THEN [nd |-> nd, ret |-> -1]
        ELSE LET d == DelScan(nd[target_node].east, 1, key)
             IN  [nd |-> [nd EXCEPT ![target_node].east =
                                       IF d.ret = 0 \/ @ = <<>> THEN d.east ELSE Tail(@)],
                  ret |-> d.ret]

\* A db_del that also frees the Node when its last Leaf goes and the Node
\* is the end of the west chain.
db_del_prune(nd, filename, key) ==
    LET target_node == find_node_linear(nd, filename)
    IN  IF target_node = NULL THEN [nd |-> nd, ret |-> -1]
        ELSE LET d == DelScan(nd[target_node].east, 1, key)
             IN  IF d.ret = 0 /\ d.east = <<>> /\ target_node = Len(nd) /\ target_node # root
                 THEN [nd |-> [SubSeq(nd, 1, Len(nd) - 1) EXCEPT ![Len(nd) - 1].west = NULL],
                       ret |-> 0]
                 ELSE [nd |-> [nd EXCEPT ![target_node].east = d.east], ret |-> d.ret]

\* A db_del that unlinks the Leaf by ending the chain before it, so every
\* Leaf after it goes too.
db_del_cut(nd, filename, key) ==
    LET target_node == find_node_linear(nd, filename)
    IN  IF target_node = NULL THEN [nd |-> nd, ret |-> -1]
        ELSE LET d == DelScan(nd[target_node].east, 1, key)
                 p == find_leaf_linear(nd, filename, key)
             IN  [nd |-> [nd EXCEPT ![target_node].east =
                                       IF d.ret = 0 THEN SubSeq(@, 1, p.l - 1) ELSE @],
                  ret |-> d.ret]

db_del(nd, filename, key) ==
    LET target_node == find_node_linear(nd, filename)
    IN  IF target_node = NULL THEN [nd |-> nd, ret |-> -1]
        ELSE LET d == DelScan(nd[target_node].east, 1, key)
             IN  [nd |-> [nd EXCEPT ![target_node].east = d.east], ret |-> d.ret]

\* The number of Nodes ensure_node_path would allocate for path.
NewNodes(nd, path) == Len(ensure_node_path(nd, path).nd) - Len(nd)

RECURSIVE LeafCount(_)
LeafCount(nd) == IF nd = <<>> THEN 0 ELSE Len(Head(nd).east) + LeafCount(Tail(nd))

\* The calls the bounds admit.
Fits(nd, f, k, v) ==
    /\ Len(nd) + NewNodes(nd, f) <= MaxNodes
    /\ LeafCount(db_set(nd, f, k, v).nd) <= MaxLeaves

(***************************************************************************)
(* main.c: the server.  Every function is an operator on the world W, the  *)
(* record of everything it can reach: W.nd the tree, W.reg / W.cnt /       *)
(* W.cl the registry, counter and client structs, W.sk the sockets and     *)
(* epoll interest, W.lg the log of send_to_client calls; W.ret carries the *)
(* return value.  A client pointer is the connection's id.                 *)
(*                                                                         *)
(* Message texts are one element per fixed phrase; the three bytes of the  *)
(* prompt "\n> " and every echoed argument byte are elements of their own. *)
(***************************************************************************)
Conns == 1..3           \* the connections peers may attempt

\* F(v), with v evaluated once.
Let(v, F(_)) == CHOOSE r \in { F(x) : x \in {v} } : TRUE

Big == BUFFER_SIZE      \* socket send room that takes any whole message

NoClient == [state |-> "NONE", read_buffer |-> <<>>, write_buffer |-> <<>>,
             write_pos |-> 0, write_pending |-> FALSE]

Sentinel == <<LF, ">", SP>>
Welcome == <<"Welcome to MemoDB! Type 'help' for commands.">> \o Sentinel
Goodbye == <<"Goodbye!", LF>>
HelpText == <<"Available commands: help, info, quit, GET, SET, DEL">> \o Sentinel
DigitOf(n) == <<"0", "1", "2", "3", "4">>[n + 1]
InfoText(cnt) ==
    <<"Server Information: Host", "Connected clients: ", DigitOf(cnt), "/", DigitOf(MAX_CLIENTS),
      "Your IP">> \o Sentinel

\* snprintf(response, sizeof(response), ...) with sizeof(response) = BUFFER_SIZE
MalformedReply(command) ==
    Trunc(<<"Error: Malformed command or invalid arguments for '">> \o command
          \o <<"'. Type 'help' for syntax.">> \o Sentinel, BUFFER_SIZE)
GetReply(value) == Trunc(<<"OK: ">> \o value \o Sentinel, BUFFER_SIZE)
NotFoundReply(key, file) ==
    Trunc(<<"ERR: Key '">> \o key \o <<"' not found in file '">> \o file \o <<"'.">> \o Sentinel,
          BUFFER_SIZE)
OkReply == <<"OK">> \o Sentinel
SetFailedReply == <<"ERR: Failed to set value. Check server logs.">> \o Sentinel
DelFailedReply == <<"ERR: Failed to delete key. Check server logs.">> \o Sentinel
UnknownReply(command) ==
    Trunc(<<"Unknown command: '">> \o command
          \o <<"'. Type 'help' for available commands.">> \o Sentinel, BUFFER_SIZE)

Word(s) == [i \in 1..Len(s) |-> toupper(s[i])]

NoParse == [ok |-> FALSE, command |-> <<>>, file |-> <<>>, key |-> <<>>, value |-> <<>>]

parse_command(command_str) ==
    LET t1 == strtok_r(command_str, 1, {SP})
        command == Word(Trunc(t1.tok, CMD_SIZE))
        t2 == strtok_r(command_str, t1.save, {SP})
        t3 == strtok_r(command_str, t2.save, {SP})
        t4 == strtok_r(command_str, t3.save, {SP})
        value_start == SkipIn(command_str, t3.save, {SP})
        file == Trunc(t2.tok, MAX_FILENAME_LEN)
        key == Trunc(t3.tok, MAX_KEY_LEN)
    IN  IF t1.tok = <<>> THEN NoParse
        ELSE IF command \in {<<"G", "E", "T">>, <<"D", "E", "L">>}
        THEN IF t2.tok = <<>> \/ t3.tok = <<>> \/ t4.tok # <<>> THEN NoParse
             ELSE [ok |-> TRUE, command |-> command, file |-> file, key |-> key, value |-> <<>>]
        ELSE IF command = <<"S", "E", "T">>
        THEN IF t2.tok = <<>> \/ t3.tok = <<>> \/ value_start > Len(command_str) THEN NoParse
             ELSE [ok |-> TRUE, command |-> command, file |-> file, key |-> key,
                   value |-> Trunc(SubSeq(command_str, value_start, Len(command_str)),
                                   MAX_VALUE_LEN)]
        ELSE NoParse

\* send(): the kernel takes what fits into the socket's send room.
\* ret: bytes taken, -1 with EAGAIN when there is no room, -2 for any other error.
KernelSend(W, c, data) ==
    LET k == W.sk[c]
        n == Min(Len(data), k.room)
    IN  IF k.rst THEN [W EXCEPT !.ret = -2]
        ELSE IF k.room = 0 THEN [W EXCEPT !.ret = -1]
        ELSE [W EXCEPT !.sk[c].out = @ \o SubSeq(data, 1, n),
                       !.sk[c].room = IF @ = Big THEN Big ELSE @ - n,
                       !.ret = n]

RECURSIVE WriteLoop(_, _)
WriteLoop(W, c) ==
    LET cli == W.cl[c]
        Sent(S) == IF S.ret = -1 THEN [S EXCEPT !.ret = 0]
                   ELSE IF S.ret = -2 THEN [S EXCEPT !.ret = -1]
                   ELSE WriteLoop([S EXCEPT !.cl[c].write_pos = @ + S.ret], c)
    IN  IF cli.write_pos < Len(cli.write_buffer)
        THEN Let(KernelSend(W, c, SubSeq(cli.write_buffer, cli.write_pos + 1,
                                         Len(cli.write_buffer))), Sent)
        ELSE [W EXCEPT !.cl[c].write_pending = FALSE,
                       !.cl[c].write_pos = 0,
                       !.cl[c].write_buffer = <<>>,
                       !.sk[c].epollin = TRUE,
                       !.sk[c].epollout = FALSE,
                       !.ret = 0]

\* A flush that sends what the socket takes and leaves the buffer marked pending.
handle_client_write_keep(W, c) ==
    LET cli == W.cl[c]
        S == KernelSend(W, c, SubSeq(cli.write_buffer, cli.write_pos + 1,
                                     Len(cli.write_buffer)))
    IN  IF ~cli.write_pending THEN [W EXCEPT !.ret = 0]
        ELSE IF S.ret < 0 THEN [S EXCEPT !.ret = 0]
        ELSE [S EXCEPT !.cl[c].write_pos = @ + S.ret, !.ret = 0]

\* A flush that leaves the interest set as it was once the buffer is sent.
handle_client_write_armed(W, c) ==
    IF ~W.cl[c].write_pending THEN [W EXCEPT !.ret = 0]
    ELSE [WriteLoop(W, c) EXCEPT !.sk[c].epollin = W.sk[c].epollin,
                                 !.sk[c].epollout = W.sk[c].epollout]

\* A flush that starts the message over after a send that would block.
handle_client_write_again(W, c) ==
    LET Rewound(R) == IF R.cl[c].write_pending THEN [R EXCEPT !.cl[c].write_pos = 0] ELSE R
    IN  IF ~W.cl[c].write_pending THEN [W EXCEPT !.ret = 0]
        ELSE Let(WriteLoop(W, c), Rewound)

handle_client_write(W, c) ==
    IF ~W.cl[c].write_pending THEN [W EXCEPT !.ret = 0] ELSE WriteLoop(W, c)

\* A send_to_client that queues the new message over one still being sent.
send_to_client_over(W, c, message, line) ==
    [W EXCEPT !.lg[c] = Append(@, [line |-> line, msg |-> message, queued |-> TRUE]),
              !.cl[c].write_buffer = message,
              !.cl[c].write_pos = 0,
              !.cl[c].write_pending = TRUE,
              !.sk[c].epollin = TRUE,
              !.sk[c].epollout = TRUE]

\* A send_to_client that buffers the message and leaves EPOLLOUT out of the
\* interest set.
send_to_client_unarmed(W, c, message, line) ==
    LET Logged(V, q) == [V EXCEPT !.lg[c] = Append(@, [line |-> line, msg |-> message,
                                                       queued |-> q])]
        Buffer(W1) == IF W1.cl[c].write_pending THEN Logged(W1, FALSE)
                      ELSE Logged([W1 EXCEPT !.cl[c].write_buffer = message,
                                             !.cl[c].write_pos = 0,
                                             !.cl[c].write_pending = TRUE], TRUE)
    IN  IF Len(message) >= BUFFER_SIZE THEN Logged(W, FALSE)
        ELSE Let(IF W.cl[c].write_pending THEN handle_client_write(W, c) ELSE W, Buffer)

\* line: the input line the message answers (<<>> for the banner).
send_to_client(W, c, message, line) ==
    LET Logged(V, q) == [V EXCEPT !.lg[c] = Append(@, [line |-> line, msg |-> message,
                                                       queued |-> q])]
        Buffer(W1) == IF W1.cl[c].write_pending THEN Logged(W1, FALSE)
                      ELSE Logged([W1 EXCEPT !.cl[c].write_buffer = message,
                                             !.cl[c].write_pos = 0,
                                             !.cl[c].write_pending = TRUE,
                                             !.sk[c].epollin = TRUE,
                                             !.sk[c].epollout = TRUE], TRUE)
    IN  IF Len(message) >= BUFFER_SIZE THEN Logged(W, FALSE)
        ELSE Let(IF W.cl[c].write_pending THEN handle_client_write(W, c) ELSE W, Buffer)

\* The command's effect on the tree and the message it answers with.
\* A test of the command word that takes help for a way out as well.
QuitCommand_help(command) ==
    command \in {<<"q", "u", "i", "t">>, <<"e", "x", "i", "t">>, <<"h", "e", "l", "p">>}

\* strcmp(command, "quit") == 0 || strcmp(command, "exit") == 0
QuitCommand(command) == command \in {<<"q", "u", "i", "t">>, <<"e", "x", "i", "t">>}

Outcome(W, command) ==
    LET Same(msg) == [nd |-> W.nd, msg |-> msg]
        Run(parsed_cmd) ==
            IF ~parsed_cmd.ok THEN Same(MalformedReply(command))
            ELSE IF parsed_cmd.command = <<"G", "E", "T">>
            THEN LET value == db_get(W.nd, parsed_cmd.file, parsed_cmd.key)
                 IN  IF value.found THEN Same(GetReply(value.value))
                     ELSE Same(NotFoundReply(parsed_cmd.key, parsed_cmd.file))
            ELSE IF parsed_cmd.command = <<"S", "E", "T">>
            THEN LET r == db_set(W.nd, parsed_cmd.file, parsed_cmd.key, parsed_cmd.value)
                 IN  [nd |-> r.nd, msg |-> IF r.ret = 0 THEN OkReply ELSE SetFailedReply]
            ELSE IF parsed_cmd.command = <<"D", "E", "L">>
            THEN LET r == db_del(W.nd, parsed_cmd.file, parsed_cmd.key)
                 IN  [nd |-> r.nd, msg |-> IF r.ret = 0 THEN OkReply ELSE DelFailedReply]
            ELSE Same(UnknownReply(command))
    IN  IF QuitCommand(command) THEN Same(Goodbye)
        ELSE IF command = <<"h", "e", "l", "p">> THEN Same(HelpText)
        ELSE IF command = <<"i", "n", "f", "o">> THEN Same(InfoText(W.cnt))
        ELSE Let(parse_command(command), Run)

process_client_command(W, c, command) ==
    LET Send(o) == send_to_client([W EXCEPT !.nd = o.nd], c, o.msg, command)
        Quit(V) == IF QuitCommand(command)
                   THEN [V EXCEPT !.cl[c].state = "DISCONNECTING"]
                   ELSE V
    IN  Quit(Let(Outcome(W, command), Send))

\* The inner loop of handle_client_read over the NUL-terminated buffer buf:
\* strchr stops at the first '\n' or at a NUL, whichever comes first.
\* ret: the index line_start is left at.
RECURSIVE LineLoop(_, _, _, _)
LineLoop(W, c, buf, line_start) ==
    LET line_end == SkipOut(buf, line_start, {LF, NUL})
        stripped == IF line_end > line_start /\ buf[line_end - 1] = CR
                    THEN SubSeq(buf, line_start, line_end - 2)
                    ELSE SubSeq(buf, line_start, line_end - 1)
    IN  IF line_end > Len(buf) \/ buf[line_end] # LF
        THEN [W EXCEPT !.ret = line_start]
        ELSE LineLoop(IF Len(stripped) > 0 THEN process_client_command(W, c, stripped) ELSE W,
                      c, buf, line_end + 1)

\* The recv loop of handle_client_read.  cut > 0: the first recv returns no
\* more than cut bytes (the rest of the data reaches the socket after it).
RECURSIVE ReadLoop(_, _, _)
ReadLoop(W, c, cut) ==
    LET k == W.sk[c]
        room == BUFFER_SIZE - Len(W.cl[c].read_buffer) - 1
        n == IF cut > 0 THEN Min(cut, Min(Len(k.inq), room)) ELSE Min(Len(k.inq), room)
        buf == W.cl[c].read_buffer \o SubSeq(k.inq, 1, n)
        W1 == [W EXCEPT !.sk[c].inq = SubSeq(@, n + 1, Len(@)),
                        !.sk[c].rcvd = @ \o SubSeq(k.inq, 1, n),
                        !.cl[c].read_buffer = buf]
        Rest(W2) ==
            LET remaining == SubSeq(buf, W2.ret, Len(buf))
                W3 == [W2 EXCEPT !.cl[c].read_buffer = remaining]
            IN  IF Len(remaining) >= BUFFER_SIZE - 1
                THEN [W3 EXCEPT !.sk[c].why = "overflow", !.ret = -1]
                ELSE ReadLoop(W3, c, 0)
    IN  IF k.inq = <<>>
        THEN IF k.fin THEN [W EXCEPT !.sk[c].why = "eof", !.ret = -1]
             ELSE [W EXCEPT !.ret = 0]
        ELSE Let(LineLoop(W1, c, buf, 1), Rest)

\* A read that takes all the socket holds and never checks the buffer's size.
handle_client_read_all(W, c, cut) ==
    LET k == W.sk[c]
        buf == W.cl[c].read_buffer \o k.inq
        W1 == [W EXCEPT !.sk[c].inq = <<>>, !.sk[c].rcvd = @ \o k.inq]
        Rest(W2) == [W2 EXCEPT !.cl[c].read_buffer = SubSeq(buf, W2.ret, Len(buf)),
                               !.ret = 0]
    IN  IF k.inq = <<>>
        THEN IF k.fin THEN [W EXCEPT !.sk[c].why = "eof", !.ret = -1]
             ELSE [W EXCEPT !.ret = 0]
        ELSE Let(LineLoop(W1, c, buf, 1), Rest)

\* A read that takes EAGAIN for a failure of recv.
handle_client_read_strict(W, c, cut) ==
    LET Ended(R) == IF R.ret = 0 THEN [R EXCEPT !.sk[c].why = "again", !.ret = -1] ELSE R
    IN  Let(ReadLoop(W, c, cut), Ended)

handle_client_read(W, c, cut) == ReadLoop(W, c, cut)

\* A destroy_client that leaves the client's slot in the clients array.
destroy_client_leak(W, c) ==
    [W EXCEPT !.sk[c].registered = FALSE,
              !.sk[c].epollin = FALSE, !.sk[c].epollout = FALSE,
              !.sk[c].phase = "closed", !.cl[c] = NoClient]

destroy_client(W, c) ==
    LET slot == IF \E i \in 1..MAX_CLIENTS : W.reg[i] = c
                THEN CHOOSE i \in 1..MAX_CLIENTS :
                        W.reg[i] = c /\ \A j \in 1..(i - 1) : W.reg[j] # c
                ELSE 0
        W1 == [W EXCEPT !.sk[c].registered = FALSE,
              !.sk[c].epollin = FALSE, !.sk[c].epollout = FALSE,
                        !.sk[c].phase = "closed", !.cl[c] = NoClient]
    IN  IF slot # 0 THEN [W1 EXCEPT !.reg[slot] = NULL, !.cnt = @ - 1] ELSE W1

\* tree.c free_tree: the Nodes on the west chain from n on.
RECURSIVE WestChain(_, _)
WestChain(nd, n) == IF n = NULL THEN {} ELSE {n} \cup WestChain(nd, nd[n].west)

\* The heap without the Nodes in freed, in heap order.
RECURSIVE Without(_, _, _)
Without(nd, freed, i) ==
    IF i > Len(nd) THEN <<>>
    ELSE (IF i \in freed THEN <<>> ELSE <<nd[i]>>) \o Without(nd, freed, i + 1)

\* Every Node on the root's west chain is freed with its Leaves, then the
\* root's own Leaves; the root stays, with west and east NULL.
free_tree(nd) ==
    Without([nd EXCEPT ![root].west = NULL, ![root].east = <<>>],
            WestChain(nd, nd[root].west), 1)

RECURSIVE DestroyAll(_, _)
DestroyAll(W, i) ==
    IF i > MAX_CLIENTS THEN W
    ELSE IF W.reg[i] = NULL THEN DestroyAll(W, i + 1)
    ELSE DestroyAll([destroy_client(W, W.reg[i]) EXCEPT !.sk[W.reg[i]].why = "shutdown"],
                    i + 1)

\* A cleanup_server that releases the tree and leaves the clients.
cleanup_server_tree(W) == [W EXCEPT !.nd = free_tree(W.nd)]

cleanup_server(W) == DestroyAll([W EXCEPT !.nd = free_tree(W.nd)], 1)

create_client == [state |-> "CONNECTING", read_buffer |-> <<>>, write_buffer |-> <<>>,
                  write_pos |-> 0, write_pending |-> FALSE]

\* A capacity check that admits one connection too many.
Full_over(W) == W.cnt > MAX_CLIENTS

\* if (g_server->client_count >= MAX_CLIENTS)
Full(W) == W.cnt >= MAX_CLIENTS

\* A handle_new_connection that registers the client and sends no banner.
handle_new_connection_quiet(W, c, ok) ==
    LET slot == IF \E i \in 1..MAX_CLIENTS : W.reg[i] = NULL
                THEN CHOOSE i \in 1..MAX_CLIENTS : W.reg[i] = NULL
                ELSE 0
    IN  IF Full(W) \/ ~ok \/ slot = 0
        THEN [W EXCEPT !.sk[c].phase = "closed", !.sk[c].why = "capacity", !.ret = -1]
        ELSE [W EXCEPT !.cl[c] = [create_client EXCEPT !.state = "AUTHENTICATED"],
                       !.sk[c].phase = "open", !.sk[c].registered = TRUE,
                       !.sk[c].epollin = TRUE,
                       !.reg[slot] = c, !.cnt = @ + 1, !.ret = 0]

\* c: the connection accept() returns, NULL when accept returns -1 (EAGAIN:
\* nothing is pending); ok: set_nonblocking, create_client and
\* epoll_ctl(ADD) all succeed.
handle_new_connection(W, c, ok) ==
    LET slot == IF \E i \in 1..MAX_CLIENTS : W.reg[i] = NULL
                THEN CHOOSE i \in 1..MAX_CLIENTS :
                        W.reg[i] = NULL /\ \A j \in 1..(i - 1) : W.reg[j] # NULL
                ELSE 0
        W1 == [W EXCEPT !.cl[c] = create_client,
                        !.sk[c].phase = "open", !.sk[c].registered = TRUE,
                        !.sk[c].epollin = TRUE, !.sk[c].epollout = FALSE]
        W2 == IF slot # 0 THEN [W1 EXCEPT !.reg[slot] = c, !.cnt = @ + 1] ELSE W1
        W3 == [W2 EXCEPT !.cl[c].state = "AUTHENTICATED"]
    IN  IF c = NULL THEN [W EXCEPT !.ret = -1]
        ELSE IF Full(W)
        THEN [W EXCEPT !.sk[c].phase = "closed", !.sk[c].why = "capacity", !.ret = -1]
        ELSE IF ~ok
        THEN [W EXCEPT !.sk[c].phase = "closed", !.sk[c].why = "setup", !.ret = -1]
        ELSE [send_to_client(W3, c, Welcome, <<>>) EXCEPT !.ret = 0]

\* A client event that runs the read path before it looks at EPOLLERR and
\* EPOLLHUP.
client_event_late(W, c, mask, cut) ==
    LET Gone(V, why) == [destroy_client(V, c) EXCEPT !.sk[c].why = why]
        Read(R) == IF "HUP" \in mask THEN Gone(R, "hup")
                   ELSE IF R.ret = -1 THEN Gone(R, R.sk[c].why)
                   ELSE IF R.cl[c].state = "DISCONNECTING" THEN Gone(R, "quit")
                   ELSE R
    IN  Let(IF "IN" \in mask THEN handle_client_read(W, c, cut)
            ELSE [W EXCEPT !.ret = 0], Read)

\* The body of main_loop's for loop for one client event; mask is
\* events[i].events as epoll_wait filled it in.
client_event(W, c, mask, cut) ==
    LET Gone(V, why) == [destroy_client(V, c) EXCEPT !.sk[c].why = why]
        Written(T) == IF T.ret = -1 THEN Gone(T, "send")
                      ELSE IF T.cl[c].state = "DISCONNECTING" THEN Gone(T, "quit")
                      ELSE T
        Read(R) == IF R.ret = -1 THEN Gone(R, R.sk[c].why)
                   ELSE Let(IF "OUT" \in mask THEN handle_client_write(R, c)
                            ELSE [R EXCEPT !.ret = 0], Written)
    IN  IF "HUP" \in mask THEN Gone(W, "hup")
        ELSE Let(IF "IN" \in mask THEN handle_client_read(W, c, cut)
                 ELSE [W EXCEPT !.ret = 0], Read)

\* What epoll_wait reports for connection c: error/hangup always, the rest
\* as far as the interest set asks for it.
Ready(c) ==
    IF ~sock[c].registered THEN {}
    ELSE (IF sock[c].rst THEN {"HUP"} ELSE {})
         \cup (IF sock[c].epollin /\ (sock[c].inq # <<>> \/ sock[c].fin)
               THEN {"IN"} ELSE {})
         \cup (IF sock[c].epollout /\ sock[c].room > 0 THEN {"OUT"} ELSE {})

(***************************************************************************)
(* The tree driven directly through db_set / db_get / db_del.              *)
(***************************************************************************)
Files == { <<"a">>, <<"a", "/", "b">>, <<"b", "/", "a">>, <<"/", "a">> }
Keys == { <<"k">>, <<"j">> }
Values == { <<"x">>, <<"y">> }

\* last: op, file, key; value: the value written (SET) or returned (GET);
\* ret: the call's result (GET: 0 for a value, -1 for NULL); was, old: what
\* db_get of the same file and key returned before the call; again: the call
\* before this one was a db_set of the same file and key; at: the place in
\* its chain of the Leaf find_leaf_linear found before the call (NULL: none).
NoCall == [op |-> "none", file |-> <<>>, key |-> <<>>, value |-> <<>>, ret |-> 0,
           was |-> FALSE, old |-> <<>>, again |-> FALSE, at |-> NULL]

\* main(): root.node.north = west = east = NULL, path "root".
RootOnly == << [path |-> <<"r", "o", "o", "t">>, north |-> NULL, west |-> NULL, east |-> <<>>] >>

InitTree == node = RootOnly

InitSock == [phase |-> "idle", inq |-> <<>>, fin |-> FALSE, rst |-> FALSE, room |-> Big,
             registered |-> FALSE, epollin |-> FALSE, epollout |-> FALSE,
             out |-> <<>>, rcvd |-> <<>>, why |-> "open"]

\* main(): g_server = calloc(...), client_count = 0; no peer has connected.
InitNet(scripts) ==
    /\ clients = [i \in 1..MAX_CLIENTS |-> NULL]
    /\ client_count = 0
    /\ client = [c \in Conns |-> NoClient]
    /\ sock = [c \in Conns |-> InitSock]
    /\ todo = scripts
    /\ log = [c \in Conns |-> <<>>]
    /\ running = TRUE
    /\ events = {}
    /\ pc = "main_loop"

InitHist ==
    /\ last = NoCall
    /\ everSet = {}
    /\ deleted = {}

Init ==
    /\ InitTree
    /\ InitHist
    /\ InitNet([c \in Conns |-> <<>>])

Call(op, f, k, v, ret) ==
    LET g == db_get(node, f, k)
    IN  [op |-> op, file |-> f, key |-> k, value |-> v, ret |-> ret,
         was |-> g.found, old |-> g.value,
         again |-> last.op = "SET" /\ last.file = f /\ last.key = k,
         at |-> find_leaf_linear(node, f, k).l]

Put(f, k, v) ==
    /\ LET r == db_set(node, f, k, v)
       IN  /\ node' = r.nd
           /\ last' = Call("SET", f, k, v, r.ret)
    /\ UNCHANGED <<everSet, deleted>>
    /\ UNCHANGED netVars

Set(f, k, v) ==
    /\ Fits(node, f, k, v)
    /\ Put(f, k, v)

Get(f, k) ==
    /\ LET r == db_get(node, f, k)
       IN  last' = Call("GET", f, k, r.value, IF r.found THEN 0 ELSE -1)
    /\ UNCHANGED <<node, everSet, deleted>>
    /\ UNCHANGED netVars

Del(f, k) ==
    /\ LET r == db_del(node, f, k)
       IN  /\ node' = r.nd
           /\ last' = Call("DEL", f, k, <<>>, r.ret)
    /\ UNCHANGED <<everSet, deleted>>
    /\ UNCHANGED netVars

Next ==
    \/ \E f \in Files, k \in Keys, v \in Values : Set(f, k, v)
    \/ \E f \in Files, k \in Keys : Get(f, k)
    \/ \E f \in Files, k \in Keys : Del(f, k)

Spec == Init /\ [][Next]_vars

(***************************************************************************)
(* The same calls, recording which files were ever SET and which           *)
(* (file, key) pairs were deleted and not SET again.                       *)
(***************************************************************************)
(***************************************************************************)
(* The tree addressed with and without a leading slash, and at the root.   *)
(***************************************************************************)
PathFiles == { <<"/">>, <<"a">>, <<"/", "a">>, <<"a", "/", "b">>, <<"/", "a", "/", "b">> }
PathKeys == { <<"k">> }

NextPath ==
    \/ \E f \in PathFiles, k \in PathKeys, v \in Values : Set(f, k, v)
    \/ \E f \in PathFiles, k \in PathKeys : Get(f, k)
    \/ \E f \in PathFiles, k \in PathKeys : Del(f, k)

SpecPath == Init /\ [][NextPath]_vars

(***************************************************************************)
(* One Node with a chain of up to MaxChain Leaves.                         *)
(***************************************************************************)
MaxChain == 3
ChainFile == <<"a">>
ChainKeys == { <<"k">>, <<"j">>, <<"i">> }

NextChain ==
    \/ \E k \in ChainKeys, v \in Values :
          /\ LeafCount(db_set(node, ChainFile, k, v).nd) <= MaxChain
          /\ Put(ChainFile, k, v)
    \/ \E k \in ChainKeys : Get(ChainFile, k)
    \/ \E k \in ChainKeys : Del(ChainFile, k)

SpecChain == Init /\ [][NextChain]_vars

(***************************************************************************)
(* The tree when an allocation of db_set can fail.                         *)
(***************************************************************************)
AllocFiles == { <<"a">>, <<"a", "/", "b">> }
AllocValues == { <<"x">> }
Failures == { "node0", "node1", "leaf", "value", "update" }

\* What the key of a Leaf reads as once the Leaf is freed: as written, or
\* as the allocator left it.  Only the failure "value" frees a Leaf.
Junk(fail, k) == IF fail = "value" THEN { k, <<>> } ELSE { k }

SetOom(f, k, v, fail, junk) ==
    /\ LET r == db_set_oom(node, f, k, v, fail, junk)
       IN  /\ Len(r.nd) <= MaxNodes
           /\ LeafCount(r.nd) <= MaxLeaves
           /\ node' = r.nd
           /\ last' = Call("SET", f, k, v, r.ret)
    /\ UNCHANGED <<everSet, deleted>>
    /\ UNCHANGED netVars

NextAlloc ==
    \/ \E f \in AllocFiles, k \in Keys, v \in AllocValues, fail \in Failures :
          \E junk \in Junk(fail, k) : SetOom(f, k, v, fail, junk)
    \/ \E f \in AllocFiles, k \in Keys : Get(f, k)
    \/ \E f \in AllocFiles, k \in Keys : Del(f, k)

SpecAlloc == Init /\ [][NextAlloc]_vars

SetTracked(f, k, v) ==
    /\ Fits(node, f, k, v)
    /\ node' = db_set(node, f, k, v).nd
    /\ everSet' = everSet \cup {PathSegments(f)}
    /\ deleted' = deleted \ {<<PathSegments(f), k>>}
    /\ UNCHANGED last
    /\ UNCHANGED netVars

DelTracked(f, k) ==
    /\ LET r == db_del(node, f, k)
       IN  /\ node' = r.nd
           /\ deleted' = IF r.ret = 0 THEN deleted \cup {<<PathSegments(f), k>>} ELSE deleted
    /\ UNCHANGED <<last, everSet>>
    /\ UNCHANGED netVars

NextTracked ==
    \/ \E f \in Files, k \in Keys, v \in Values : SetTracked(f, k, v)
    \/ \E f \in Files, k \in Keys : DelTracked(f, k)

SpecTracked == Init /\ [][NextTracked]_vars

(***************************************************************************)
(* The reactor: peers connect, send their script segment by segment, stop  *)
(* reading, close or reset; main_loop accepts and serves one event at a    *)
(* time.                                                                   *)
(***************************************************************************)
Line(s) == s \o <<LF>>
SET_a_k_x == <<"S", "E", "T", SP, "a", SP, "k", SP, "x">>
GET_a_k == <<"G", "E", "T", SP, "a", SP, "k">>
SET_ba_k_y == <<"S", "E", "T", SP, "b", "/", "a", SP, "k", SP, "y">>
GET_ba_k == <<"G", "E", "T", SP, "b", "/", "a", SP, "k">>
QUIT == <<"q", "u", "i", "t">>
LongLine == [i \in 1..(BUFFER_SIZE - 2) |-> "x"]

\* Each scenario gives the segments the peers of connections 1, 2 and 3 send;
\* a peer with nothing to send stays away.
Scenarios == {
    << <<Line(SET_a_k_x)>>,
       <<Line(SET_ba_k_y), Line(GET_ba_k)>>,
       <<>> >>,
    << <<Line(QUIT) \o Line(SET_a_k_x)>>,
       <<Line(GET_a_k) \o <<"e", "x">>, <<"i", "t", CR, LF>> >>,
       <<>> >>,
    << <<<<"a", NUL, "b", LF>> \o Line(GET_a_k)>>,
       <<<<"g", "e", "t", SP, "a", SP, "k", SP, "z", CR, LF, LF>>, Line(<<"S", "E", "T", SP, "a">>)>>,
       <<>> >>,
    << <<Line(LongLine)>>,
       <<Line(<<"h", "e", "l", "p">>) \o Line(<<"X", SP, "a", SP, "k">>)>>,
       <<>> >>,
    << <<>>,
       <<SubSeq(LongLine, 1, 10), SubSeq(LongLine, 1, 5) \o <<"y">> >>,
       <<>> >>
}

\* The connections whose peer may stop reading or reset.
Slow == {1}

\* The connections for which setting up the client can fail, and the
\* outcomes of setting up connection c.
Flaky == {3}
Setups(c) == IF c \in Flaky THEN {TRUE, FALSE} ELSE {TRUE}

InitReactor ==
    /\ InitTree
    /\ InitHist
    /\ \E scn \in Scenarios : InitNet([c \in Conns |-> scn[c]])

World == [nd |-> node, reg |-> clients, cnt |-> client_count, cl |-> client,
          sk |-> sock, lg |-> log, ret |-> 0]

Commit(W) ==
    /\ node' = W.nd
    /\ clients' = W.reg
    /\ client_count' = W.cnt
    /\ client' = W.cl
    /\ sock' = W.sk
    /\ log' = W.lg

Live(c) == sock[c].phase \in {"backlog", "open"} /\ ~sock[c].rst

PeerConnect(c) ==
    /\ sock[c].phase = "idle"
    /\ todo[c] # <<>>
    /\ sock' = [sock EXCEPT ![c].phase = "backlog"]
    /\ UNCHANGED <<node, histVars, loopVars, clients, client_count, client, todo, log>>

PeerSend(c) ==
    /\ Live(c) /\ ~sock[c].fin
    /\ todo[c] # <<>>
    /\ sock' = [sock EXCEPT ![c].inq = @ \o Head(todo[c])]
    /\ todo' = [todo EXCEPT ![c] = Tail(@)]
    /\ UNCHANGED <<node, histVars, loopVars, clients, client_count, client, log>>

\* The peer closes once it has sent all it had to send.
PeerClose(c) ==
    /\ Live(c) /\ ~sock[c].fin
    /\ todo[c] = <<>>
    /\ sock' = [sock EXCEPT ![c].fin = TRUE]
    /\ UNCHANGED <<node, histVars, loopVars, clients, client_count, client, todo, log>>

PeerReset(c) ==
    /\ c \in Slow
    /\ sock[c].phase = "open" /\ ~sock[c].rst
    /\ sock' = [sock EXCEPT ![c].rst = TRUE]
    /\ todo' = [todo EXCEPT ![c] = <<>>]
    /\ UNCHANGED <<node, histVars, loopVars, clients, client_count, client, log>>

\* The peer stops reading with room for r more bytes in the socket.
PeerStall(c, r) ==
    /\ c \in Slow
    /\ sock[c].phase = "open" /\ ~sock[c].rst
    /\ sock[c].room = Big
    /\ sock' = [sock EXCEPT ![c].room = r]
    /\ UNCHANGED <<node, histVars, loopVars, clients, client_count, client, todo, log>>

PeerDrain(c) ==
    /\ sock[c].phase = "open" /\ ~sock[c].rst
    /\ sock[c].room < Big
    /\ sock' = [sock EXCEPT ![c].room = Big]
    /\ UNCHANGED <<node, histVars, loopVars, clients, client_count, client, todo, log>>

\* The event of the listening socket: accept() returns connection c.
Admit(c) ==
    /\ sock[c].phase = "backlog"
    /\ \E ok \in Setups(c) :
           \E W \in {handle_new_connection(World, c, ok)} : Commit(W)
    /\ UNCHANGED <<histVars, todo>>

\* main_loop: an iteration whose epoll_wait reports the listening socket.
Accept(c) ==
    /\ pc = "main_loop" /\ running /\ events = {}
    /\ Admit(c)
    /\ UNCHANGED loopVars

\* What the first recv() of an event may return short of everything queued
\* (0: everything): one byte, or all but one.
ShortReads(c) == {0} \cup { n \in {1, Len(sock[c].inq) - 1} : 0 < n /\ n < Len(sock[c].inq) }

\* The event of connection c, reported with mask.
Serve(c, mask) ==
    /\ mask # {}
    /\ \E cut \in ShortReads(c) :
           \E W \in {client_event(World, c, mask, cut)} : Commit(W)
    /\ UNCHANGED <<histVars, todo>>

\* main_loop: an iteration whose epoll_wait (edge-triggered) reports
\* connection c.
ClientEvent(c) ==
    /\ pc = "main_loop" /\ running /\ events = {}
    /\ Serve(c, Ready(c))
    /\ UNCHANGED loopVars

NextReactor ==
    \/ \E c \in Conns : PeerConnect(c)
    \/ \E c \in Conns : PeerSend(c)
    \/ \E c \in Conns : PeerClose(c)
    \/ \E c \in Conns : PeerReset(c)
    \/ \E c \in Conns, r \in {0, 1} : PeerStall(c, r)
    \/ \E c \in Conns : PeerDrain(c)
    \/ \E c \in Conns : Accept(c)
    \/ \E c \in Conns : ClientEvent(c)

SpecReactor == InitReactor /\ [][NextReactor]_vars

(***************************************************************************)
(* The reactor with its batches of events and the shutdown signal.         *)
(***************************************************************************)
\* events[i].data.fd == g_server->listen_fd
Listen == 0

\* What epoll_wait returns: the listening socket while a connection waits
\* in its backlog, and every client epoll has something to report for.
ReadyEvents ==
    (IF \E c \in Conns : sock[c].phase = "backlog"
     THEN {[c |-> Listen, mask |-> {"IN"}]} ELSE {})
    \cup { [c |-> c, mask |-> Ready(c)] : c \in { d \in Conns : Ready(d) # {} } }

\* SIGINT or SIGTERM: shutdown_handler.
Signal ==
    /\ pc = "main_loop"
    /\ running
    /\ running' = FALSE
    /\ UNCHANGED <<node, histVars, clients, client_count, client, sock, todo, log,
                   events, pc>>

\* while (g_server->running) { nfds = epoll_wait(...) with nfds > 0.
Wait ==
    /\ pc = "main_loop"
    /\ running
    /\ events = {}
    /\ ReadyEvents # {}
    /\ events' = ReadyEvents
    /\ UNCHANGED <<node, histVars, clients, client_count, client, sock, todo, log,
                   running, pc>>

\* for (i < nfds): the listening socket's event.
ServeListen ==
    /\ pc = "main_loop"
    /\ \E e \in events :
          /\ e.c = Listen
          /\ events' = events \ {e}
          /\ \E c \in Conns : Admit(c)
    /\ UNCHANGED <<running, pc>>

\* for (i < nfds): the event of client c.
ServeClient(c) ==
    /\ pc = "main_loop"
    /\ \E e \in events :
          /\ e.c = c
          /\ events' = events \ {e}
          /\ Serve(c, e.mask)
    /\ UNCHANGED <<running, pc>>

\* The while condition fails; main() calls cleanup_server and returns.
Shutdown ==
    /\ pc = "main_loop"
    /\ ~running
    /\ events = {}
    /\ Commit(cleanup_server(World))
    /\ pc' = "exit"
    /\ UNCHANGED <<histVars, todo, running, events>>

ShutdownScripts == [c \in Conns |->
                      IF c = 1 THEN <<Line(SET_a_k_x)>>
                      ELSE IF c = 2 THEN <<Line(<<"x">>)>>
                      ELSE <<>>]

InitShutdown ==
    /\ InitTree
    /\ InitHist
    /\ InitNet(ShutdownScripts)

NextShutdown ==
    \/ \E c \in Conns : PeerConnect(c)
    \/ \E c \in Conns : PeerSend(c)
    \/ \E c \in Conns : PeerClose(c)
    \/ Signal
    \/ Wait
    \/ ServeListen
    \/ \E c \in Conns : ServeClient(c)
    \/ Shutdown

\* main() runs on: it serves the events epoll_wait gave it (weak fairness
\* of the two Serve actions, enabled exactly while events is not empty) and
\* leaves the loop once the flag is down.
FairShutdown ==
    /\ WF_vars(Shutdown)
    /\ \/ []<>(events = {})
       \/ []<><<ServeListen \/ \E c \in Conns : ServeClient(c)>>_vars

SpecShutdown == InitShutdown /\ [][NextShutdown]_vars /\ FairShutdown

(***************************************************************************)
(* One peer more than the server has room for.                             *)
(***************************************************************************)
CapacityScripts == [c \in Conns |->
                      IF c = 1 THEN <<Line(QUIT)>>
                      ELSE IF c = 2 THEN <<Line(<<"x">>)>>
                      ELSE <<Line(<<>>)>>]

InitCapacity ==
    /\ InitTree
    /\ InitHist
    /\ InitNet(CapacityScripts)

SpecCapacity == InitCapacity /\ [][NextReactor]_vars

(***************************************************************************)
(* Single lines dispatched on the tree: what process_client_command does   *)
(* to the tree and which message it answers with, for lines put together   *)
(* from a verb, a file, a key and a value.                                 *)
(***************************************************************************)
LineKeys == { <<"k">>, <<"k", "k", "x">>, <<"k", "k", "y">> }
LineValues == { <<"v">>, <<"v", SP, "w", SP>>, <<SP, "v", "w", "x", "y">> }
LineOthers == { <<"q", "u", "i", "t">>, <<"e", "x", "i", "t">>, <<"h", "e", "l", "p">>,
                <<"i", "n", "f", "o">>, <<SP, "h", "e", "l", "p">>, <<SP>>,
                <<"Q", "U", "I", "T">>, <<"q", "u", "i", "t", SP, "n", "o", "w">>,
                <<"q", "u", "i", "t", SP>>,
                <<"S", "E", "T">>, <<"G", "E", "T", SP, "a">>,
                <<"P", "U", "T", SP, "a", SP, "k">>,
                <<"G", "E", "T", SP, "a", SP, "k", SP, "z">>,
                <<"S", "E", "T", SP, "a", SP, "k", SP, SP>>,
                <<"s", "e", "t", SP, "a", SP, "k", SP, "v">>,
                <<"S", "E", "T", SP, "a", "b", "c", "d", "e", "f", SP, "k", SP, "v">>,
                <<"G", "E", "T", SP, "a", "b", "c", "d", "e", "g", SP, "k">> }

\* The lines handle_client_read can hand over: shorter than BUFFER_SIZE - 1.
Lines ==
    { l \in LineOthers
        \cup { v \o <<SP, "a", SP>> \o k : v \in {<<"G", "E", "T">>, <<"D", "E", "L">>},
                                          k \in LineKeys }
        \cup { <<"S", "E", "T", SP, "a", SP>> \o k \o <<SP>> \o x :
                 k \in LineKeys \ {<<"k", "k", "y">>}, x \in LineValues } :
      Len(l) < BUFFER_SIZE - 1 }

Dispatch(line) ==
    /\ LET Done(o) ==
               /\ Len(o.nd) <= MaxNodes
               /\ LeafCount(o.nd) <= MaxLeaves
               /\ node' = o.nd
               /\ last' = [op |-> "LINE", line |-> line, msg |-> o.msg, before |-> node]
       IN  \E o \in {Outcome(World, line)} : Done(o)
    /\ UNCHANGED <<everSet, deleted>>
    /\ UNCHANGED netVars

NextLine == \E line \in Lines : Dispatch(line)

SpecLine == Init /\ [][NextLine]_vars

(***************************************************************************)
(* Claims about the tree.                                                  *)
(***************************************************************************)
Hit(v) == [found |-> TRUE, value |-> v]

\* C1: a successful SET f k v immediately followed by GET f k returns
\* exactly v, from every reachable tree and for one- and two-segment files.
RoundTrip ==
    (last.op = "SET" /\ last.ret = 0) => db_get(node, last.file, last.key) = Hit(last.value)

\* A SET on a two-segment file has just replaced a different value.
RoundTripWitness ==
    /\ last.op = "SET" /\ last.ret = 0
    /\ last.file = <<"b", "/", "a">>
    /\ last.was /\ last.old # last.value

\* C2: a SET or DEL on file g never changes the result of GET f k for a file
\* f whose segment sequence differs from g's.
Isolation ==
    [][ last'.op \in {"SET", "DEL"} =>
          \A f \in Files, k \in Keys :
              PathSegments(f) # PathSegments(last'.file)
                  => db_get(node', f, k) = db_get(node, f, k) ]_vars

\* C3: GET p k is NotFound for every path p that was never the file
\* argument of a SET.
NeverSetNotFound ==
    \A f \in Files, k \in Keys :
        PathSegments(f) \notin everSet => ~db_get(node, f, k).found

\* C4: SET f k v1; SET f k v2; GET f k returns v2, whatever (f, k) held
\* before the first SET.
LastWriteWins ==
    (last.op = "SET" /\ last.again /\ last.ret = 0)
        => db_get(node, last.file, last.key) = Hit(last.value)

\* The second of two SETs of one file and key has just written a value
\* different from the first one's.
LastWriteWinsWitness ==
    /\ last.op = "SET" /\ last.again /\ last.ret = 0
    /\ last.old # last.value
    /\ Len(PathSegments(last.file)) = 2

\* C5: after a successful DEL f k, GET f k is NotFound until the next
\* SET f k.
DeletedStaysGone ==
    \A d \in deleted : \A f \in Files :
        PathSegments(f) = d[1] => ~db_get(node, f, d[2]).found


(***************************************************************************)
(* Claims about the server.  log[c] holds one entry per send_to_client     *)
(* call of connection c: the banner (line <<>>) and then one reply per     *)
(* dispatched line.                                                        *)
(***************************************************************************)
IsReply(e) == e.line # <<>>
Replies(c) == SelectSeq(log[c], IsReply)
Dispatched(c) == [i \in 1..Len(Replies(c)) |-> Replies(c)[i].line]

IsQuit(l) == l \in {<<"q", "u", "i", "t">>, <<"e", "x", "i", "t">>}
IsBuiltin(l) == IsQuit(l) \/ l \in {<<"h", "e", "l", "p">>, <<"i", "n", "f", "o">>}
Verb(l) == Word(Head(Tokens(l, 1, {SP})))
IsVerb(l, v) == Tokens(l, 1, {SP}) # <<>> /\ Verb(l) = v

\* The tree and the GET reply connection c would see after its first n
\* lines had run alone on the initial tree.
RECURSIVE AloneTree(_, _)
AloneTree(lines, n) ==
    IF n = 0 THEN RootOnly
    ELSE LET p == parse_command(lines[n])
             t == AloneTree(lines, n - 1)
         IN  IF p.ok /\ p.command = <<"S", "E", "T">> THEN db_set(t, p.file, p.key, p.value).nd
             ELSE IF p.ok /\ p.command = <<"D", "E", "L">> THEN db_del(t, p.file, p.key).nd
             ELSE t

AloneReply(lines, n) ==
    LET p == parse_command(lines[n])
        v == db_get(AloneTree(lines, n - 1), p.file, p.key)
    IN  IF v.found THEN GetReply(v.value) ELSE NotFoundReply(p.key, p.file)

FilesOf(c) == { parse_command(Dispatched(c)[i]).file : i \in 1..Len(Dispatched(c)) }

DisjointSetGet ==
    /\ \A c \in Conns : \A i \in 1..Len(Dispatched(c)) :
           /\ parse_command(Dispatched(c)[i]).ok
           /\ parse_command(Dispatched(c)[i]).command \in {<<"S", "E", "T">>, <<"G", "E", "T">>}
    /\ \A c \in Conns : \A d \in Conns \ {c} : FilesOf(c) \cap FilesOf(d) = {}

\* C6: when the two connections issue only SET/GET on disjoint files, every
\* GET is answered as it would be had its connection run alone, whatever
\* the interleaving.
Convergence ==
    DisjointSetGet =>
        \A c \in Conns : \A i \in 1..Len(Replies(c)) :
            IsVerb(Replies(c)[i].line, <<"G", "E", "T">>)
                => Replies(c)[i].msg = AloneReply(Dispatched(c), i)

\* The complete (newline-terminated) lines of a byte stream, and what is
\* left behind the last newline.
RECURSIVE CompleteLines(_)
CompleteLines(s) ==
    IF \A i \in 1..Len(s) : s[i] # LF THEN <<>>
    ELSE LET e == CHOOSE i \in 1..Len(s) : s[i] = LF /\ \A j \in 1..(i - 1) : s[j] # LF
         IN  <<SubSeq(s, 1, e - 1)>> \o CompleteLines(SubSeq(s, e + 1, Len(s)))

RECURSIVE PartialLine(_)
PartialLine(s) ==
    IF \A i \in 1..Len(s) : s[i] # LF THEN s
    ELSE LET e == CHOOSE i \in 1..Len(s) : s[i] = LF /\ \A j \in 1..(i - 1) : s[j] # LF
         IN  PartialLine(SubSeq(s, e + 1, Len(s)))

StripCR(l) == IF l # <<>> /\ l[Len(l)] = CR THEN SubSeq(l, 1, Len(l) - 1) ELSE l
NonEmpty(l) == l # <<>>
NonEmptyLines(s) ==
    SelectSeq([i \in 1..Len(CompleteLines(s)) |-> StripCR(CompleteLines(s)[i])], NonEmpty)

\* Every line, with its newline, fits the read buffer and its terminator.
ShortLines(s) ==
    /\ \A i \in 1..Len(CompleteLines(s)) : Len(CompleteLines(s)[i]) + 1 < BUFFER_SIZE
    /\ Len(PartialLine(s)) + 1 < BUFFER_SIZE

\* C7: for a connection whose lines are all shorter than the read buffer,
\* the lines dispatched are exactly the non-empty newline-terminated lines
\* of the bytes received so far (one trailing CR stripped), in order and
\* once each, however the stream was split.
OrderedDispatch ==
    \A c \in Conns :
        ShortLines(sock[c].rcvd) => Dispatched(c) = NonEmptyLines(sock[c].rcvd)

Contains(s, t) == \E i \in 0..(Len(s) - Len(t)) : SubSeq(s, i + 1, i + Len(t)) = t

\* C8: a connection closed because of quit/exit, with a peer that is
\* reading, has had the whole goodbye line written to its socket.
QuitDeliversGoodbye ==
    \A c \in Conns :
        (sock[c].why = "quit" /\ sock[c].room = Big) => Contains(sock[c].out, Goodbye)

\* C9: once quit/exit has been dispatched on a connection, no later line of
\* that connection is dispatched.
NothingAfterQuit ==
    \A c \in Conns : \A i \in 1..Len(Dispatched(c)) :
        IsQuit(Dispatched(c)[i]) => i = Len(Dispatched(c))

\* A line that is no built-in and does not follow the grammar: no verb, an
\* unknown verb, a missing file or key, SET without a value, a token after
\* the key of GET or DEL.
Malformed(l) ==
    LET toks == Tokens(l, 1, {SP})
    IN  /\ ~IsBuiltin(l)
        /\ \/ toks = <<>>
           \/ Verb(l) \notin {<<"G", "E", "T">>, <<"S", "E", "T">>, <<"D", "E", "L">>}
           \/ Len(toks) < 3
           \/ Verb(l) = <<"S", "E", "T">> /\ Len(toks) < 4
           \/ Verb(l) \in {<<"G", "E", "T">>, <<"D", "E", "L">>} /\ Len(toks) > 3

ProtocolError(l) ==
    <<"Error: Malformed command or invalid arguments for '">> \o l
        \o <<"'. Type 'help' for syntax.">> \o Sentinel

\* C10: every malformed line is answered with the protocol-error reply that
\* echoes the line.
MalformedRejected ==
    \A c \in Conns : \A i \in 1..Len(Replies(c)) :
        Malformed(Replies(c)[i].line) => Replies(c)[i].msg = ProtocolError(Replies(c)[i].line)


(***************************************************************************)
(* Claims about single lines.                                              *)
(***************************************************************************)
\* The text of a line behind its third token, leading spaces removed.
Remainder(l) ==
    LET a == SkipOut(l, SkipIn(l, 1, {SP}), {SP})
        b == SkipOut(l, SkipIn(l, a, {SP}), {SP})
        c == SkipOut(l, SkipIn(l, b, {SP}), {SP})
    IN  SubSeq(l, SkipIn(l, c, {SP}), Len(l))

\* A GET/SET/DEL line with a file, key or value longer than its field holds.
Oversize(l) ==
    LET toks == Tokens(l, 1, {SP})
    IN  /\ Len(toks) >= 2
        /\ Verb(l) \in {<<"G", "E", "T">>, <<"S", "E", "T">>, <<"D", "E", "L">>}
        /\ \/ Len(toks[2]) > MAX_FILENAME_LEN - 1
           \/ Len(toks) >= 3 /\ Len(toks[3]) > MAX_KEY_LEN - 1
           \/ Verb(l) = <<"S", "E", "T">> /\ Len(Remainder(l)) > MAX_VALUE_LEN - 1

\* C11: a GET/SET/DEL line with an oversize file, key or value is answered
\* with the protocol error and leaves the tree as it was.
OversizeRejected ==
    (last.op = "LINE" /\ Oversize(last.line))
        => last.msg = ProtocolError(last.line) /\ node = last.before


(***************************************************************************)
(* Strict request/response: a peer sends its next line only after it has   *)
(* received the whole previous message, and neither closes nor resets.     *)
(* It may read slowly.                                                     *)
(***************************************************************************)
RECURSIVE Flat(_)
Flat(entries) == IF entries = <<>> THEN <<>> ELSE Head(entries).msg \o Flat(Tail(entries))

\* The peer of c has got the banner and one whole message per line it sent.
Answered(c) ==
    /\ Len(log[c]) = 1 + Len(NonEmptyLines(sock[c].rcvd \o sock[c].inq))
    /\ sock[c].out = Flat(log[c])

StrictScripts == {
    << <<Line(SET_a_k_x), Line(GET_a_k)>>,
       <<Line(<<"h", "e", "l", "p">>), Line(<<"X", SP, "a", SP, "k">>)>>,
       <<>> >>
}

InitStrict ==
    /\ InitTree
    /\ InitHist
    /\ \E scn \in StrictScripts : InitNet([c \in Conns |-> scn[c]])

PeerSendStrict(c) ==
    /\ sock[c].phase = "open"
    /\ Answered(c)
    /\ PeerSend(c)

NextStrict ==
    \/ \E c \in Conns : PeerConnect(c)
    \/ \E c \in Conns : PeerSendStrict(c)
    \/ \E c \in Conns : PeerStall(c, 1)
    \/ \E c \in Conns : PeerDrain(c)
    \/ \E c \in Conns : Accept(c)
    \/ \E c \in Conns : ClientEvent(c)

\* ClientEvent(c) can change the state exactly when epoll_wait has something
\* to report for c.
Reported(c) == Ready(c) # {}

\* main_loop keeps calling epoll_wait and serves whatever it reports (weak
\* fairness of Accept and of ClientEvent, the latter written out with
\* Reported(c) for its ENABLED); a peer that reads slowly does go on reading.
FairStrict ==
    \A c \in Conns : /\ WF_vars(Accept(c))
                     /\ WF_vars(PeerDrain(c))
                     /\ \/ []<>(~Reported(c))
                        \/ []<><<ClientEvent(c)>>_vars

SpecStrict == InitStrict /\ [][NextStrict]_vars /\ FairStrict

IsPrefix(s, t) == Len(s) <= Len(t) /\ SubSeq(t, 1, Len(s)) = s

NoneDropped ==
    \A c \in Conns : /\ \A i \in 1..Len(log[c]) : log[c][i].queued
                     /\ Dispatched(c) = NonEmptyLines(sock[c].rcvd)
                     /\ IsPrefix(sock[c].out, Flat(log[c]))

Queued(e) == e.queued
Probe == <<"p">>

\* What a flush attempt on c leaves, and what queueing Probe on c leaves.
Flushed(c) == handle_client_write(World, c)
Offered(c) == send_to_client(World, c, Probe, Probe)

\* c's message is still incomplete after a flush attempt.
Stuck(c) == client[c].write_pending /\ Flushed(c).cl[c].write_pending

\* C13: the write buffer holds at most one message, the last one that was
\* queued; a message offered while the pending one is still incomplete
\* after a flush attempt is discarded, and the pending message's contents,
\* length and send position are as the flush attempt left them.
SingleOutbound ==
    \A c \in Conns :
        /\ client[c].write_pending =>
              /\ SelectSeq(log[c], Queued) # <<>>
              /\ client[c].write_buffer =
                     SelectSeq(log[c], Queued)[Len(SelectSeq(log[c], Queued))].msg
        /\ ~client[c].write_pending => client[c].write_buffer = <<>>
        /\ Stuck(c) =>
              /\ Offered(c).cl = Flushed(c).cl
              /\ Offered(c).sk = Flushed(c).sk
              /\ Offered(c).lg[c] =
                     Append(log[c], [line |-> Probe, msg |-> Probe, queued |-> FALSE])

\* A reply that fits the buffer was discarded behind a message that is
\* still incomplete.
SingleOutboundWitness ==
    \E c \in Conns :
        /\ Stuck(c)
        /\ \E i \in 1..Len(log[c]) :
              ~log[c][i].queued /\ Len(log[c][i].msg) < BUFFER_SIZE

(***************************************************************************)
(* Claims about the read buffer.                                           *)
(***************************************************************************)
Overflowed(c) == sock[c].why = "overflow"

\* C14: a connection never holds more than BUFFER_SIZE - 1 unread bytes,
\* and between two events fewer than that; a connection whose partial line
\* reached BUFFER_SIZE - 1 bytes without a newline is closed, and the
\* server has read exactly those bytes of the line and none after them.
BoundedReadBuffer ==
    \A c \in Conns :
        /\ Len(client[c].read_buffer) < BUFFER_SIZE - 1
        /\ Overflowed(c) =>
              /\ sock[c].phase = "closed"
              /\ ~sock[c].registered
              /\ \A i \in 1..MAX_CLIENTS : clients[i] # c
              /\ Len(PartialLine(sock[c].rcvd)) = BUFFER_SIZE - 1

\* A connection was closed for overflow with a byte of the peer still unread.
BoundedReadBufferWitness ==
    \E c \in Conns : Overflowed(c) /\ sock[c].inq # <<>>

(***************************************************************************)
(* Claims about the registry.                                              *)
(***************************************************************************)
Registered == { c \in Conns : \E i \in 1..MAX_CLIENTS : clients[i] = c }

\* The step takes c off the listening socket's backlog while the registry
\* is full.
Overflowing(c) ==
    /\ sock[c].phase = "backlog"
    /\ client_count = MAX_CLIENTS
    /\ sock'[c].phase # "backlog"

Turned(c) ==
    /\ sock'[c].phase = "closed"
    /\ sock'[c].why = "capacity"
    /\ ~sock'[c].registered
    /\ sock'[c].out = <<>>
    /\ log'[c] = <<>>
    /\ c \notin Registered'
    /\ UNCHANGED <<node, clients, client_count, client>>
    /\ \A d \in Conns \ {c} : sock'[d] = sock[d] /\ log'[d] = log[d]

\* C15: the number of registered connections never exceeds MAX_CLIENTS; a
\* connection accepted while the count equals MAX_CLIENTS is closed at
\* once, is never registered, is sent nothing, and the count, the registry
\* and every other connection stay as they were.
CapacityLimit ==
    /\ [](client_count <= MAX_CLIENTS /\ Cardinality(Registered) <= MAX_CLIENTS)
    /\ [][\A c \in Conns : Overflowing(c) => Turned(c)]_vars

\* A connection was turned away while MAX_CLIENTS others were being served.
CapacityLimitWitness ==
    \E c \in Conns : /\ sock[c].why = "capacity"
                      /\ client_count = MAX_CLIENTS
                      /\ \A d \in Conns \ {c} : log[d] # <<>>

Occupied == { i \in 1..MAX_CLIENTS : clients[i] # NULL }

\* C16: the live-connection count is the number of occupied slots, no two
\* slots hold the same connection, exactly the open connections hold a
\* slot, a client structure and an epoll registration, and once every
\* connection is closed the count is 0 and the registry is empty.
NoLeak ==
    /\ client_count = Cardinality(Occupied)
    /\ \A i \in Occupied : \A j \in Occupied : clients[i] = clients[j] => i = j
    /\ \A c \in Conns :
          /\ (sock[c].phase = "open") = (c \in Registered)
          /\ (sock[c].phase = "open") = sock[c].registered
          /\ (sock[c].phase = "open") = (client[c] # NoClient)
    /\ (\A c \in Conns : sock[c].phase = "closed") =>
          client_count = 0 /\ Occupied = {}

\* All three connections were served and closed, each for another reason
\* (so the third took a slot another had given up), and nothing is left.
NoLeakWitness ==
    /\ sock[1].phase = "closed" /\ sock[1].why = "hup"
    /\ sock[2].phase = "closed" /\ sock[2].why = "eof"
    /\ sock[3].phase = "closed" /\ sock[3].why = "eof"
    /\ \A c \in Conns : log[c] # <<>>
    /\ client_count = 0

(***************************************************************************)
(* Claims about shutdown.                                                  *)
(***************************************************************************)
Released ==
    /\ client_count = 0
    /\ Occupied = {}
    /\ \A c \in Conns : /\ sock[c].phase # "open"
                        /\ ~sock[c].registered
                        /\ client[c] = NoClient
    /\ node = RootOnly

\* C17: once running is false main_loop starts no further epoll_wait and
\* exits when the events of the current iteration are served; on exit every
\* registered connection is closed, the registry is empty and the tree is
\* back to the bare root; after the exit no connection is accepted and
\* nothing of the server changes.
ShutdownOrderly ==
    /\ (~running) ~> (pc = "exit")
    /\ [][~running => ~(events = {} /\ events' # {})]_vars
    /\ [](pc = "exit" => Released)
    /\ [][pc = "exit" => /\ pc' = "exit"
                         /\ UNCHANGED <<node, clients, client_count, client, log>>
                         /\ \A c \in Conns : sock'[c].phase # "open"]_vars

\* The server has exited with connection 1 served and closed by the
\* shutdown, its SET carried out, and connection 2 still in the backlog.
ShutdownOrderlyWitness ==
    /\ pc = "exit"
    /\ sock[1].why = "shutdown"
    /\ Len(log[1]) = 2
    /\ sock[2].phase = "backlog"

(***************************************************************************)
(* Claims about calls that miss.                                           *)
(***************************************************************************)
\* C18: a db_get, whether it finds the key or not, and a db_del that
\* returns -1 (no such Node, or no such key on the Node) leave the whole
\* tree as it was: no Node or Leaf is created, removed, moved or changed.
MissesChangeNothing ==
    [][(last'.op = "GET" \/ (last'.op = "DEL" /\ last'.ret = -1)) => node' = node]_vars

\* A db_del failed for a key that is not on a Node that exists and has
\* Leaves, on a tree with more than one Node.
MissesChangeNothingWitness ==
    /\ last.op = "DEL" /\ last.ret = -1
    /\ find_node_linear(node, last.file) # NULL
    /\ node[find_node_linear(node, last.file)].east # <<>>
    /\ Len(node) > 2

(***************************************************************************)
(* Claims about the text of replies.                                       *)
(***************************************************************************)
EndsWith(s, t) == Len(s) >= Len(t) /\ SubSeq(s, Len(s) - Len(t) + 1, Len(s)) = t

\* C19: the message handed to send_to_client for a dispatched line (the
\* reply of GET, SET or DEL, the protocol error, help, info, goodbye) ends
\* with the prompt sentinel "\n> ".
PromptSentinel == last.op = "LINE" => EndsWith(last.msg, Sentinel)

(***************************************************************************)
(* Claims about the value of SET.                                          *)
(***************************************************************************)
\* A SET line with a file and a key that fit their fields.
IsSet(l) ==
    LET toks == Tokens(l, 1, {SP})
    IN  /\ Len(toks) >= 3
        /\ Verb(l) = <<"S", "E", "T">>
        /\ Len(toks[2]) <= MAX_FILENAME_LEN - 1
        /\ Len(toks[3]) <= MAX_KEY_LEN - 1

\* C20: after a SET line the value stored under its file and key is the
\* rest of the line after the key, without its leading spaces and otherwise
\* as it was sent; a SET line with nothing but spaces after the key gets the
\* protocol error and stores nothing.
SetValueExact ==
    (last.op = "LINE" /\ IsSet(last.line)) =>
        LET toks == Tokens(last.line, 1, {SP})
        IN  IF Remainder(last.line) = <<>>
            THEN last.msg = ProtocolError(last.line) /\ node = last.before
            ELSE /\ last.msg = OkReply
                 /\ db_get(node, toks[2], toks[3]).found
                 /\ db_get(node, toks[2], toks[3]).value = Remainder(last.line)

(***************************************************************************)
(* Claims about the built-in commands.                                     *)
(***************************************************************************)
\* l without its leading and trailing spaces.
RECURSIVE TrimRight(_)
TrimRight(l) == IF l # <<>> /\ l[Len(l)] = SP THEN TrimRight(SubSeq(l, 1, Len(l) - 1)) ELSE l
Trim(l) == TrimRight(SubSeq(l, SkipIn(l, 1, {SP}), Len(l)))

BuiltinWords == {<<"q", "u", "i", "t">>, <<"e", "x", "i", "t">>,
                 <<"h", "e", "l", "p">>, <<"i", "n", "f", "o">>}

BuiltinReply(w) ==
    IF IsQuit(w) THEN Goodbye
    ELSE IF w = <<"h", "e", "l", "p">> THEN HelpText
    ELSE InfoText(client_count)

\* C21: a line is answered as help, info, quit or exit exactly when its
\* trimmed content is that lowercase word alone; every other casing and
\* every line with an argument goes to the parser and gets the protocol
\* error.
BuiltinMatching ==
    last.op = "LINE" =>
        IF IsBuiltin(Trim(last.line))
        THEN last.msg = BuiltinReply(Trim(last.line))
        ELSE /\ last.msg \notin {Goodbye, HelpText, InfoText(client_count)}
             /\ (\E w \in BuiltinWords : IsVerb(last.line, Word(w))) =>
                    last.msg = ProtocolError(last.line) /\ node = last.before

(***************************************************************************)
(* Claims about paths.                                                     *)
(***************************************************************************)
Slash(p) == <<"/">> \o p

\* C22: a path with a '/' put in front resolves like the path itself in
\* the lookup and in the creating walk, so GET, SET and DEL do the same on
\* both; the path '/' (and the empty path) resolves to the root, and the
\* Leaf of a SET on '/' hangs on the root and is what a GET on '/' returns.
PathNormalised ==
    /\ \A p \in PathFiles \cup {<<>>} :
          /\ find_node_linear(node, Slash(p)) = find_node_linear(node, p)
          /\ ensure_node_path(node, Slash(p)) = ensure_node_path(node, p)
          /\ \A k \in PathKeys :
                /\ db_get(node, Slash(p), k) = db_get(node, p, k)
                /\ db_del(node, Slash(p), k) = db_del(node, p, k)
                /\ \A v \in Values : db_set(node, Slash(p), k, v) = db_set(node, p, k, v)
    /\ \A p \in {<<>>, <<"/">>} :
          /\ find_node_linear(node, p) = root
          /\ ensure_node_path(node, p) = [nd |-> node, ret |-> root]
    /\ (last.op = "SET" /\ last.file = <<"/">>) =>
          /\ \E i \in 1..Len(node[root].east) :
                node[root].east[i] = [key |-> last.key, value |-> last.value]
          /\ db_get(node, <<"/">>, last.key) = [found |-> TRUE, value |-> last.value]

\* A GET on '/' returned the value a SET on '/' had stored, in a tree that
\* has other Nodes.
PathNormalisedWitness ==
    /\ last.op = "GET" /\ last.file = <<"/">> /\ last.ret = 0
    /\ node[root].east # <<>>
    /\ Len(node) > 2

(***************************************************************************)
(* Claims about the welcome banner.                                        *)
(***************************************************************************)
\* Connection c got past the capacity check and its set-up.
Admitted(c) ==
    \/ sock[c].phase = "open"
    \/ sock[c].phase = "closed" /\ sock[c].why \notin {"capacity", "setup"}

UniqueKeys ==
    \A n \in 1..Len(node) :
        \A i \in 1..Len(node[n].east) : \A j \in 1..Len(node[n].east) :
            node[n].east[i].key = node[n].east[j].key => i = j

\* The step is a db_set of a file and key that had a Leaf.
Overwrites == last'.op = "SET" /\ find_leaf_linear(node, last'.file, last'.key).l # NULL

\* C24: no Node ever has two Leaves with the same key, and a db_set of a
\* file and key that have a Leaf changes the value of that Leaf and nothing
\* else: the Leaf keeps its place and no Leaf or Node is added.
KeyUniqueness ==
    /\ []UniqueKeys
    /\ [][Overwrites =>
            LET p == find_leaf_linear(node, last'.file, last'.key)
            IN  node' = [node EXCEPT ![p.n].east[p.l].value = last'.value]]_vars

\* The first of two Leaves of a Node was given another value.
KeyUniquenessWitness ==
    /\ last.op = "SET" /\ last.was /\ last.old # last.value
    /\ find_leaf_linear(node, last.file, last.key).l = 1
    /\ Len(node[find_leaf_linear(node, last.file, last.key).n].east) = 2

(***************************************************************************)
(* Claims about the hierarchy of Nodes.                                    *)
(***************************************************************************)
\* The segments on the way from the root down to Node n, read off the
\* north back-references.
RECURSIVE Ancestry(_, _)
Ancestry(nd, n) ==
    IF n = root \/ n = NULL THEN <<>> ELSE Append(Ancestry(nd, nd[n].north), nd[n].path)

\* C25: the Node that find_node_linear or ensure_node_path returns for a
\* path has exactly the path's segments on its way up to the root: every
\* segment was matched against a direct child of the Node before it.
HierarchyResolved ==
    \A f \in Files :
        /\ find_node_linear(node, f) # NULL =>
              Ancestry(node, find_node_linear(node, f)) = PathSegments(f)
        /\ Len(node) + NewNodes(node, f) <= MaxNodes =>
              Ancestry(ensure_node_path(node, f).nd, ensure_node_path(node, f).ret)
                 = PathSegments(f)

\* The Nodes of the heap, each named by its way down from the root.
Skeleton(nd) == { Ancestry(nd, n) : n \in 1..Len(nd) }

\* The heap without its Leaves.
Bare(nd) == [n \in 1..Len(nd) |-> [nd[n] EXCEPT !.east = <<>>]]

\* C26: no step removes a Node; a step that is not a db_set leaves the
\* Nodes and their links exactly as they were, and after a db_del that
\* succeeded, also one that took the last Leaf, the file still resolves to
\* the same Node.
NodesPermanent ==
    [][/\ Len(node') >= Len(node)
       /\ Skeleton(node) \subseteq Skeleton(node')
       /\ last'.op # "SET" => Bare(node') = Bare(node)
       /\ (last'.op = "DEL" /\ last'.ret = 0) =>
              /\ find_node_linear(node, last'.file) # NULL
              /\ find_node_linear(node', last'.file) = find_node_linear(node, last'.file)]_vars

\* A db_del took the last Leaf of a Node that is not the root, and the
\* Node is still there.
NodesPermanentWitness ==
    /\ last.op = "DEL" /\ last.ret = 0
    /\ find_node_linear(node, last.file) \notin {NULL, root}
    /\ node[find_node_linear(node, last.file)].east = <<>>
    /\ Len(node) > 2

(***************************************************************************)
(* Claims about DEL.                                                       *)
(***************************************************************************)
Without1(ch, l) == SubSeq(ch, 1, l - 1) \o SubSeq(ch, l + 1, Len(ch))

\* C27: a db_del that succeeds takes exactly the Leaf with the key out of
\* the chain of the Node the file resolves to, wherever in the chain it
\* is; the other Leaves keep their values and their order, and every other
\* Node stays as it was.
DelFrame ==
    [][(last'.op = "DEL" /\ last'.ret = 0) =>
           LET p == find_leaf_linear(node, last'.file, last'.key)
           IN  /\ p.l # NULL
               /\ node[p.n].east[p.l].key = last'.key
               /\ node' = [node EXCEPT ![p.n].east = Without1(@, p.l)]]_vars

\* A db_del took the middle one of three Leaves.
DelFrameWitness ==
    /\ last.op = "DEL" /\ last.ret = 0 /\ last.at = 2
    /\ Len(node[find_node_linear(node, last.file)].east) = 2

\* A db_del took the first, and one took the last, of three Leaves.
DelFrameEnds ==
    /\ last.op = "DEL" /\ last.ret = 0 /\ last.at \in {1, 3}
    /\ Len(node[find_node_linear(node, last.file)].east) = 2

InterestDropped ==
    \E c \in Conns :
        /\ sock[c].registered /\ ~sock[c].epollout
        /\ ~client[c].write_pending /\ sock[c].out # <<>>

\* The message in c's write buffer has gone out whole and c is back to
\* EPOLLIN alone.
Drained(c) ==
    /\ sock[c].registered
    /\ ~client[c].write_pending
    /\ client[c].write_pos = 0
    /\ ~sock[c].epollout
    /\ sock[c].out = Flat(log[c])

StaysOpen == \A c \in Conns : sock[c].phase = "open" => sock[c].registered

(***************************************************************************)
(* Claims about the order in which a client event is served.               *)
(***************************************************************************)
\* epoll_wait will report EPOLLERR | EPOLLHUP for c.
Hung(c) == sock[c].registered /\ sock[c].rst

\* C30: a client event with EPOLLERR or EPOLLHUP destroys the client and
\* runs neither the read nor the write path: nothing is read, no line is
\* dispatched, nothing is sent and the tree is not touched; and a client
\* left in state DISCONNECTING by the read path is destroyed in the same
\* iteration, so that no client is DISCONNECTING when main_loop calls
\* epoll_wait again.
ServicingOrder ==
    /\ [](\A c \in Conns : client[c] # NoClient => client[c].state # "DISCONNECTING")
    /\ [][\A c \in Conns :
             Hung(c) =>
                 /\ log'[c] = log[c]
                 /\ sock'[c].inq = sock[c].inq
                 /\ sock'[c].rcvd = sock[c].rcvd
                 /\ sock'[c].out = sock[c].out
                 /\ (sock'[c] # sock[c] \/ client'[c] # client[c]) =>
                        /\ ~sock'[c].registered
                        /\ sock'[c].phase = "closed"
                        /\ sock'[c].why = "hup"
                        /\ client'[c] = NoClient
                        /\ node' = node]_vars

\* A connection closed on EPOLLHUP with a line of the peer left unread.
ServicingOrderWitness ==
    \E c \in Conns :
        /\ sock[c].phase = "closed" /\ sock[c].why = "hup"
        /\ \E i \in 1..Len(sock[c].inq) : sock[c].inq[i] = LF

\* A connection closed in the iteration that read its quit.
ClosedOnQuit == \E c \in Conns : sock[c].phase = "closed" /\ sock[c].why = "quit"

\* A connection about to be closed on EPOLLHUP has part of a line in its
\* read buffer.
HungMidLine ==
    \E c \in Conns :
        /\ Hung(c)
        /\ client[c].read_buffer # <<>>

(***************************************************************************)
(* Claims about accept.                                                    *)
(***************************************************************************)
Pending(c) == sock[c].phase = "backlog"

\* C31: the iteration that serves the listening socket's event accepts
\* until the backlog is empty or client_count has reached MAX_CLIENTS: after
\* a step that took a connection out of the backlog no connection is left
\* in it unless the server is full.
AcceptDrains ==
    [][(\E c \in Conns : Pending(c) /\ ~Pending(c)') =>
           \/ \A d \in Conns : ~Pending(d)'
           \/ client_count' >= MAX_CLIENTS]_vars

(***************************************************************************)
(* Claims about EAGAIN.                                                    *)
(***************************************************************************)
\* What the three calls leave when the first thing they meet is EAGAIN.
NothingToAccept == handle_new_connection(World, NULL, TRUE)
NothingToRead(c) == handle_client_read(World, c, 0)

Idle(c) == sock[c].registered /\ ~sock[c].rst /\ ~sock[c].fin /\ sock[c].inq = <<>>
Choked(c) == sock[c].registered /\ ~sock[c].rst /\ client[c].write_pending /\ sock[c].room = 0

\* A step read all of c's socket, which held no line end and fits the
\* buffer, and the recv after it returned EAGAIN.
ReadPart(c) ==
    /\ sock[c].registered /\ ~sock[c].rst /\ ~sock[c].fin
    /\ sock[c].inq # <<>> /\ sock'[c].rcvd # sock[c].rcvd
    /\ \A i \in 1..Len(sock[c].inq) : sock[c].inq[i] # LF
    /\ Len(client[c].read_buffer) + Len(sock[c].inq) < BUFFER_SIZE - 1

\* A step with nothing to read for c sent part of c's message and the send
\* after it returned EAGAIN.
SentPart(c) ==
    /\ Idle(c) /\ client[c].write_pending
    /\ sock[c].out # sock'[c].out
    /\ sock'[c].room = 0
    /\ Len(sock'[c].out) - Len(sock[c].out)
          < Len(client[c].write_buffer) - client[c].write_pos

\* C32: EAGAIN from accept, recv or send closes nothing and changes no
\* client's state: accept returns with nothing changed; recv ends the read
\* with the unfinished line kept in read_buffer; send returns with the
\* message, its length and write_pos as they are, to be resumed later.
WouldBlockHarmless ==
    /\ [](/\ NothingToAccept = [World EXCEPT !.ret = -1]
          /\ \A c \in Conns :
                /\ Idle(c) => NothingToRead(c) = World
                /\ Choked(c) => Flushed(c) = World)
    /\ [][\A c \in Conns :
             /\ ReadPart(c) =>
                   /\ sock'[c].registered /\ sock'[c].phase = "open"
                   /\ client'[c].state = client[c].state
                   /\ client'[c].read_buffer = client[c].read_buffer \o sock[c].inq
             /\ SentPart(c) =>
                   /\ sock'[c].registered /\ sock'[c].phase = "open"
                   /\ client'[c].state = client[c].state
                   /\ client'[c].write_pending
                   /\ client'[c].write_buffer = client[c].write_buffer
                   /\ client'[c].write_pos
                         = client[c].write_pos + Len(sock'[c].out) - Len(sock[c].out)]_vars

\* A client holds the start of a line, its socket is empty and its peer
\* has more to send.
WouldBlockHarmlessWitness ==
    \E c \in Conns :
        /\ Idle(c)
        /\ client[c].read_buffer # <<>>
        /\ todo[c] # <<>>

\* A client's message is part sent and its socket is full.
ChokedMidMessage == \E c \in Conns : Choked(c) /\ client[c].write_pos > 0

(***************************************************************************)
(* Claims about allocation failure.                                        *)
(***************************************************************************)
ChainsLive(nd) == \A n \in 1..Len(nd) : \A i \in 1..Len(nd[n].east) : ~Dangling(nd[n].east[i])

\* C33: a db_set that fails on an allocation leaves every chain made of
\* live Leaves only, and db_get of every other file and key returns what
\* it returned before; Nodes created on the way may stay.
SetFailureKeepsTree ==
    [][(last'.op = "SET" /\ last'.ret = -1 /\ ChainsLive(node)) =>
           /\ ChainsLive(node')
           /\ \A f \in AllocFiles, k \in Keys :
                 <<f, k>> # <<last'.file, last'.key>> =>
                     db_get(node', f, k) = db_get(node, f, k)]_vars

(***************************************************************************)
(* Claims about the client's state.                                        *)
(***************************************************************************)
\* How far connection c has come.
Stage(sk, cli) ==
    IF sk.phase = "closed" THEN 4
    ELSE IF cli.state = "DISCONNECTING" THEN 3
    ELSE IF cli.state = "AUTHENTICATED" THEN 2
    ELSE IF cli.state = "CONNECTING" THEN 1
    ELSE 0

\* The calls of send_to_client for c that a step added, the banner left out.
Answers(c) ==
    { e \in { log'[c][i] : i \in (Len(log[c]) + 1)..Len(log'[c]) } : e.line # <<>> }

Buffered(c) == SelectSeq(log[c], Queued)
Front(q) == SubSeq(q, 1, Len(q) - 1)

\* C35: what has been written to a connection's socket is, byte for byte, the
\* messages that were put in its write buffer, in the order they were put
\* there, the last of them up to write_pos while it is pending: no byte is
\* sent twice or left out, and a message that is partly sent is not
\* overwritten.  For a connection that was closed it is a prefix of them.
StreamIntact ==
    \A c \in Conns :
        /\ IsPrefix(sock[c].out, Flat(Buffered(c)))
        /\ (sock[c].registered /\ ~client[c].write_pending) =>
               sock[c].out = Flat(Buffered(c))
        /\ (sock[c].registered /\ client[c].write_pending) =>
               /\ Buffered(c) # <<>>
               /\ client[c].write_pos <= Len(client[c].write_buffer)
               /\ sock[c].out = Flat(Front(Buffered(c)))
                                   \o SubSeq(client[c].write_buffer, 1, client[c].write_pos)

\* A message is partly sent and a later message was refused meanwhile.
StreamIntactWitness ==
    \E c \in Conns :
        /\ sock[c].registered /\ client[c].write_pending
        /\ client[c].write_pos > 0
        /\ Len(Buffered(c)) < Len(log[c])

\* A peer has received three whole messages.
ThreeDelivered ==
    \E c \in Conns : Len(Buffered(c)) >= 3 /\ sock[c].out = Flat(Buffered(c))

(***************************************************************************)
(* Claims about ensure_node_path and find_node_linear together.            *)
(***************************************************************************)
\* C36: the Node ensure_node_path returns for a path, found or created, is
\* the Node find_node_linear returns for that path right after it, so the
\* Leaf db_set looks for with find_leaf_linear is looked for in the chain of
\* the Node db_set would append to; and after a db_set the Leaf is in the
\* chain of that Node.
EnsureFindAgree ==
    /\ [](\A f \in PathFiles :
             LET e == ensure_node_path(node, f)
             IN  /\ e.ret # NULL
                 /\ find_node_linear(e.nd, f) = e.ret
                 /\ \A k \in PathKeys : find_leaf_linear(e.nd, f, k).n = e.ret)
    /\ [][last'.op = "SET" =>
             LET e == ensure_node_path(node, last'.file)
             IN  /\ Len(node') = Len(e.nd)
                 /\ EastSearch(node'[e.ret].east, last'.key) # NULL
                 /\ find_leaf_linear(node', last'.file, last'.key).n = e.ret]_vars

\* ensure_node_path would create the Node b under an existing Node a that
\* has a Leaf.
EnsureFindAgreeWitness ==
    /\ Len(node) = 2
    /\ node[2].east # <<>>
    /\ NewNodes(node, <<"a", "/", "b">>) = 1

\* A db_set has created two Nodes at once.
TwoCreated == last.op = "SET" /\ Len(node) = 3 /\ node[3].east # <<>> /\ node[2].east = <<>>

(***************************************************************************)
(* Claims about free_tree.                                                 *)
(***************************************************************************)
\* The Nodes free_tree passes to free_node_and_leaves, in the order of its
\* walk from n along the west links.
RECURSIVE FreeOrder(_, _)
FreeOrder(nd, n) == IF n = NULL THEN <<>> ELSE <<n>> \o FreeOrder(nd, nd[n].west)

\* C37: for every tree the calls can build, free_tree frees every Node but
\* the root once, and every Leaf once: its walk meets each Node other than
\* the root exactly once, no Leaf it frees was freed before, and it leaves
\* the root with west and east NULL.
TeardownComplete ==
    LET order == FreeOrder(node, node[root].west)
    IN  /\ { order[i] : i \in 1..Len(order) } = 2..Len(node)
        /\ Len(order) = Len(node) - 1
        /\ ChainsLive(node)
        /\ free_tree(node) = RootOnly

(***************************************************************************)
(* Claims about the order of a Node's Leaves.                              *)
(***************************************************************************)
\* The keys on the chain of the Node of ChainFile, first Leaf first.
ChainKeysOf(nd) ==
    LET n == find_node_linear(nd, ChainFile)
    IN  IF n = NULL THEN <<>> ELSE [i \in 1..Len(nd[n].east) |-> nd[n].east[i].key]

\* C38: a Node's chain holds its Leaves in the order they were created: a
\* db_set of a key without a Leaf appends the new Leaf behind the last one,
\* where find_last_linear then finds it; a db_set of a key with a Leaf and a
\* db_get move nothing; a db_del takes its Leaf out and leaves the others in
\* their order; find_last_linear returns NULL exactly for a Node without
\* Leaves.
LeafOrder ==
    /\ [](\A n \in 1..Len(node) :
             /\ find_last_linear(node, n) = NULL <=> node[n].east = <<>>
             /\ find_last_linear(node, n) # NULL => find_last_linear(node, n) = Len(node[n].east))
    /\ [][LET before == ChainKeysOf(node)
              after == ChainKeysOf(node')
              Others(k) == k # last'.key
          IN  IF last'.op = "SET" /\ last'.at = NULL
              THEN /\ after = Append(before, last'.key)
                   /\ find_last_linear(node', find_node_linear(node', ChainFile)) = Len(after)
              ELSE IF last'.op = "DEL" /\ last'.ret = 0
              THEN after = SelectSeq(before, Others)
              ELSE after = before]_vars

\* A third Leaf was created behind two others.
LeafOrderWitness ==
    /\ last.op = "SET" /\ last.at = NULL
    /\ ChainKeysOf(node) = << <<"j">>, <<"k">>, <<"i">> >>
    /\ last.key = <<"i">>

\* The same two keys in the other order.
LeafOrderOther == ChainKeysOf(node) = << <<"k">>, <<"j">> >>

====
